---- MODULE Spec2Model ----
(***************************************************************************)
(* The Veil ledger (src/veil/ledger.py): a hash-chained, append-only JSON  *)
(* ledger with a verifier and a legacy migration that quarantines records  *)
(* it cannot map.                                                          *)
(*                                                                         *)
(* JSON values are tagged tuples, so that values of different JSON types   *)
(* can be compared:                                                        *)
(*   <<"null">>            JSON null / Python None                         *)
(*   <<"num", n>>          a JSON number                                   *)
(*   <<"str", s>>          a JSON string                                   *)
(*   <<"sha", i,o,t,ts,p>> the hex digest (a string) of the canonical      *)
(*                         block with those five fields: SHA-256 is        *)
(*                         modelled as collision free                      *)
(*   <<"repr", v>>         the string str(v) of a container value          *)
(*   <<"dict", f>>         a JSON object, f a function on its keys         *)
(*   <<"list", s>>         a JSON array                                    *)
(* A file is <<"absent">>, <<"invalid">> (not JSON text) or                *)
(* <<"json", v>> (the JSON text of v, lines ending in LF as json.dumps     *)
(* and write_text give them) or <<"json", v, "crlf">> (the same JSON text  *)
(* with lines ending in CR LF).                                            *)
(*                                                                         *)
(* fsys and procs describe a save step by step (the temporary file, the    *)
(* text written so far, the rename) for the specifications in which calls  *)
(* of several processes interleave or a writer crashes; they stay idle in  *)
(* the specifications that take each call as one step.                     *)
(***************************************************************************)
EXTENDS Integers, Sequences, FiniteSets, TLC

VARIABLES ledger_file, quarantine_file, backup_file, last, tamper, fsys, procs

vars == <<ledger_file, quarantine_file, backup_file, last, tamper, fsys, procs>>

\* ------------------------------------------------------------ bounds
\* append_entry is not called on a ledger that already holds MaxLen records
MaxLen == 3
\* time.time() returns one of 1..MaxTime
MaxTime == 1
\* the ledger found on disk at the start holds at most MaxInit records
MaxInit == 2
\* migrate is not called when the quarantine store would exceed MaxQuar records
MaxQuar == 3

\* ------------------------------------------------------------ JSON values
JNull == <<"null">>
JNum(n) == <<"num", n>>
JStr(s) == <<"str", s>>
JDict(f) == <<"dict", f>>
JList(s) == <<"list", s>>

FAbsent == <<"absent">>
FInvalid == <<"invalid">>
FJson(v) == <<"json", v>>
FJsonCRLF(v) == <<"json", v, "crlf">>

GENESIS == JStr("GENESIS")

IsDict(v) == v[1] = "dict"
IsList(v) == v[1] = "list"

\* key in block
HasKey(block, k) == k \in DOMAIN block[2]
\* block.get(k, default)
GetD(block, k, default) == IF HasKey(block, k) THEN block[2][k] ELSE default
\* block.get(k)
Get(block, k) == GetD(block, k, JNull)

\* Python truthiness, as used by `or` and `if x`
Truthy(v) ==
  CASE v[1] = "null" -> FALSE
    [] v[1] = "num" -> v[2] # 0
    [] v[1] = "str" -> v[2] # ""
    [] v[1] = "dict" -> DOMAIN v[2] # {}
    [] v[1] = "list" -> Len(v[2]) > 0
    [] OTHER -> TRUE

\* str(v)
PyStr(v) ==
  CASE v[1] = "str" -> v
    [] v[1] = "sha" -> v
    [] v[1] = "repr" -> v
    [] v[1] = "null" -> JStr("None")
    [] v[1] = "num" -> JStr(ToString(v[2]))
    [] OTHER -> <<"repr", v>>

\* the decimal numerals that int() and float() parse
Digits == 0..9
IsNumeral(s) == \E n \in Digits : ToString(n) = s
ParseNumeral(s) == CHOOSE n \in Digits : ToString(n) = s

\* float(v): ok is FALSE where Python raises TypeError or ValueError
PyFloat(v) ==
  CASE v[1] = "num" -> [ok |-> TRUE, val |-> v[2]]
    [] v[1] = "str" -> IF IsNumeral(v[2])
                       THEN [ok |-> TRUE, val |-> ParseNumeral(v[2])]
                       ELSE [ok |-> FALSE, val |-> 0]
    [] OTHER -> [ok |-> FALSE, val |-> 0]

\* int(v): ok is FALSE where Python raises TypeError or ValueError
PyInt(v) ==
  CASE v[1] = "num" -> [ok |-> TRUE, val |-> v[2]]
    [] v[1] = "str" -> IF IsNumeral(v[2])
                       THEN [ok |-> TRUE, val |-> ParseNumeral(v[2])]
                       ELSE [ok |-> FALSE, val |-> 0]
    [] OTHER -> [ok |-> FALSE, val |-> 0]

\* a or b or c or d: the first truthy operand, else the last one
RECURSIVE OrChain(_)
OrChain(vals) ==
  IF Len(vals) = 1 THEN vals[1]
  ELSE IF Truthy(vals[1]) THEN vals[1] ELSE OrChain(Tail(vals))

\* ------------------------------------------------------------ canonical hashing
\* a canonical block with organ and tier exchanged
canonical_block_for_hash_Swapped(index, organ, tier, timestamp, prev_hash) ==
  [index |-> index, organ |-> tier, tier |-> organ,
   timestamp |-> timestamp, prev_hash |-> prev_hash]

\* _canonical_block_for_hash
canonical_block_for_hash(index, organ, tier, timestamp, prev_hash) ==
  [index |-> index, organ |-> organ, tier |-> tier,
   timestamp |-> timestamp, prev_hash |-> prev_hash]

\* sha256 of json.dumps(block, sort_keys=True): a digest that determines the
\* five canonical fields
hash_block(block) ==
  <<"sha", block.index, block.organ, block.tier, block.timestamp, block.prev_hash>>

\* a block stored with its hash left null
StoredBlock_NoHash(canonical, hash) ==
  JDict([index |-> JNum(canonical.index), organ |-> canonical.organ,
         tier |-> canonical.tier, timestamp |-> JNum(canonical.timestamp),
         prev_hash |-> canonical.prev_hash, hash |-> JNull])

\* dict(canonical) with block["hash"] set, as json.dumps then json.loads gives it
StoredBlock(canonical, hash) ==
  JDict([index |-> JNum(canonical.index), organ |-> canonical.organ,
         tier |-> canonical.tier, timestamp |-> JNum(canonical.timestamp),
         prev_hash |-> canonical.prev_hash, hash |-> hash])

\* ------------------------------------------------------------ IO helpers
\* a load that takes any unreadable file for an empty ledger
load_ledger_Lenient(file) ==
  IF file[1] = "json" /\ IsList(file[2])
  THEN [raised |-> FALSE, val |-> file[2][2]]
  ELSE [raised |-> FALSE, val |-> <<>>]

\* load_ledger: raised where it raises RuntimeError
load_ledger(file) ==
  CASE file = FAbsent -> [raised |-> FALSE, val |-> <<>>]
    [] file = FInvalid -> [raised |-> TRUE, val |-> <<>>]
    [] OTHER -> IF IsList(file[2])
                THEN [raised |-> FALSE, val |-> file[2][2]]
                ELSE [raised |-> TRUE, val |-> <<>>]

\* Path.read_text: the text of a file, every line ending translated to LF
\* (text mode, universal newlines)
read_text(file) == IF Len(file) = 3 THEN <<"json", file[2]>> ELSE file

\* _atomic_write_text: the file a completed write leaves at the path
atomic_write_text(text) == text

\* save_ledger
save_ledger(ledger) == atomic_write_text(FJson(JList(ledger)))

\* mutant: the store is written without reading what it holds
load_json_list_Forget(file) == <<>>

\* _load_json_list
load_json_list(file) ==
  CASE file = FAbsent -> <<>>
    [] file = FInvalid -> <<>>
    [] OTHER -> IF IsList(file[2]) THEN file[2][2] ELSE <<>>

\* _save_json_list
save_json_list(items) == atomic_write_text(FJson(JList(items)))

\* ------------------------------------------------------------ legacy mapping
OrganKeys == <<"name", "organ_name", "service", "module">>
TierKeys == <<"priority", "level", "tier_name", "class">>

\* a mapper that knows the canonical key names only
map_legacy_fields_CanonicalOnly(block) ==
  <<IF Get(block, "organ") # JNull THEN PyStr(Get(block, "organ")) ELSE JNull,
    IF Get(block, "tier") # JNull THEN PyStr(Get(block, "tier")) ELSE JNull>>

\* _map_legacy_fields: <<organ, tier>>, JNull for None
map_legacy_fields(block) ==
  LET organ0 == Get(block, "organ")
      organ1 == IF organ0 = JNull
                THEN OrChain([k \in 1..Len(OrganKeys) |-> Get(block, OrganKeys[k])])
                ELSE organ0
      tier0 == Get(block, "tier")
      tier1 == IF tier0 = JNull
               THEN OrChain([k \in 1..Len(TierKeys) |-> Get(block, TierKeys[k])])
               ELSE tier0
  IN <<IF organ1 # JNull THEN PyStr(organ1) ELSE JNull,
       IF tier1 # JNull THEN PyStr(tier1) ELSE JNull>>

\* ------------------------------------------------------------ append
\* an append that derives no hash for a last record without one
TailHash_Genesis(ledger) == GENESIS

\* a recomputation that takes the record's position for its index
TailHash_PositionIndex(ledger) ==
  LET lastrec == ledger[Len(ledger)]
      m == map_legacy_fields(lastrec)
      ts == IF HasKey(lastrec, "timestamp")
            THEN PyFloat(lastrec[2]["timestamp"])
            ELSE [ok |-> FALSE, val |-> 0]
      ph == PyStr(GetD(lastrec, "prev_hash", GENESIS))
  IN IF ts.ok /\ m[1] # JNull /\ m[2] # JNull
     THEN hash_block(canonical_block_for_hash(Len(ledger) - 1, m[1], m[2], ts.val, ph))
     ELSE GENESIS

\* the hash append_ledger_entry recomputes for a last record that carries no
\* (truthy) stored hash; GENESIS where the try block raises or the fields do
\* not map
TailHash(ledger) ==
  LET lastrec == ledger[Len(ledger)]
      m == map_legacy_fields(lastrec)
      idx == PyInt(GetD(lastrec, "index", JNum(Len(ledger) - 1)))
      ts == IF HasKey(lastrec, "timestamp")
            THEN PyFloat(lastrec[2]["timestamp"])
            ELSE [ok |-> FALSE, val |-> 0]
      ph == PyStr(GetD(lastrec, "prev_hash", GENESIS))
  IN IF idx.ok /\ ts.ok /\ m[1] # JNull /\ m[2] # JNull
     THEN hash_block(canonical_block_for_hash(idx.val, m[1], m[2], ts.val, ph))
     ELSE GENESIS

\* a prev_hash taken from a stored hash only, never recomputed
AppendPrevHash_StoredOnly(ledger) ==
  IF Len(ledger) = 0 THEN GENESIS
  ELSE LET lastrec == ledger[Len(ledger)]
       IN IF IsDict(lastrec) /\ Truthy(Get(lastrec, "hash"))
          THEN PyStr(lastrec[2]["hash"])
          ELSE GENESIS

\* mutant: the new block is never chained to the last one
AppendPrevHash_AlwaysGenesis(ledger) == GENESIS

\* the prev_hash append_ledger_entry gives the new block
AppendPrevHash(ledger) ==
  IF Len(ledger) = 0 THEN GENESIS
  ELSE LET lastrec == ledger[Len(ledger)]
       IN IF IsDict(lastrec) /\ Truthy(Get(lastrec, "hash"))
          THEN PyStr(lastrec[2]["hash"])
          ELSE IF IsDict(lastrec) THEN TailHash(ledger)
          ELSE GENESIS

\* mutant: the hash is taken before prev_hash is resolved
NewBlock_StaleHash(ledger, organ_name, tier, timestamp) ==
  LET canonical == canonical_block_for_hash(Len(ledger), organ_name, tier,
                                            timestamp, AppendPrevHash(ledger))
      stale == canonical_block_for_hash(Len(ledger), organ_name, tier,
                                        timestamp, GENESIS)
  IN StoredBlock(canonical, hash_block(stale))

\* mutant: indices count from 1
NewBlock_IndexFromOne(ledger, organ_name, tier, timestamp) ==
  LET canonical == canonical_block_for_hash(Len(ledger) + 1, organ_name, tier,
                                            timestamp, AppendPrevHash(ledger))
  IN StoredBlock(canonical, hash_block(canonical))

\* the block append_ledger_entry builds for a ledger of that content
NewBlock(ledger, organ_name, tier, timestamp) ==
  LET canonical == canonical_block_for_hash(Len(ledger), organ_name, tier,
                                            timestamp, AppendPrevHash(ledger))
  IN StoredBlock(canonical, hash_block(canonical))

\* an append that drops the records that are not objects
append_ledger_entry_DropsInvalid(file, organ_name, tier, now) ==
  LET ld == load_ledger(file)
  IN IF ld.raised
     THEN [raised |-> TRUE, ledger_file |-> file]
     ELSE [raised |-> FALSE,
           ledger_file |->
             save_ledger(Append(SelectSeq(ld.val, IsDict),
                                NewBlock(ld.val, organ_name, tier, now)))]

\* an append that saves the new block alone
append_ledger_entry_SaveNewOnly(file, organ_name, tier, now) ==
  LET ld == load_ledger(file)
  IN IF ld.raised
     THEN [raised |-> TRUE, ledger_file |-> file]
     ELSE [raised |-> FALSE,
           ledger_file |-> save_ledger(<<NewBlock(ld.val, organ_name, tier, now)>>)]

\* append_ledger_entry(organ_name, tier) at time.time() = now: the ledger file
\* it leaves, and whether it raised
append_ledger_entry(file, organ_name, tier, now) ==
  LET ld == load_ledger(file)
  IN IF ld.raised
     THEN [raised |-> TRUE, ledger_file |-> file]
     ELSE [raised |-> FALSE,
           ledger_file |->
             save_ledger(Append(ld.val, NewBlock(ld.val, organ_name, tier, now)))]

\* ------------------------------------------------------------ verify
Failure(reason, i) == [ok |-> FALSE, reason |-> reason, index |-> i]
Passed(reason) == [ok |-> TRUE, reason |-> reason, index |-> -1]

\* a scan that stops at the first object
Verifiable_AnyObject(block) == IsDict(block)

\* a record the legacy-prefix scan stops at
Verifiable(block) ==
  /\ IsDict(block)
  /\ map_legacy_fields(block)[1] # JNull
  /\ map_legacy_fields(block)[2] # JNull
  /\ HasKey(block, "timestamp")

\* a scan that stops only at a record that states its index
FirstVerifiable_NeedsIndex(ledger) ==
  IF \E i \in 1..Len(ledger) : Verifiable(ledger[i]) /\ HasKey(ledger[i], "index")
  THEN CHOOSE i \in 1..Len(ledger) :
         /\ Verifiable(ledger[i]) /\ HasKey(ledger[i], "index")
         /\ \A j \in 1..(i - 1) : ~(Verifiable(ledger[j]) /\ HasKey(ledger[j], "index"))
  ELSE 0

\* the for/else scan of verify_ledger: the first verifiable position
\* (1-based), 0 when there is none
FirstVerifiable(ledger) ==
  IF \E i \in 1..Len(ledger) : Verifiable(ledger[i])
  THEN CHOOSE i \in 1..Len(ledger) :
         Verifiable(ledger[i]) /\ \A j \in 1..(i - 1) : ~Verifiable(ledger[j])
  ELSE 0

\* a prev_hash rule that accepts GENESIS at any position
BrokenLink_GenesisAccepted(prev_hash, prev_expected_hash) ==
  prev_expected_hash = JNull \/ (prev_hash # prev_expected_hash /\ prev_hash # GENESIS)

\* mutant: only a missing anchor breaks the chain
BrokenLink_AnchorOnly(prev_hash, prev_expected_hash) ==
  prev_expected_hash = JNull

\* mutant: only an empty prev_hash breaks the chain
BrokenLink_EmptyOnly(prev_hash, prev_expected_hash) ==
  prev_expected_hash = JNull \/ prev_hash = JStr("")

\* the prev_hash rule for a record after the first verified one
BrokenLink(prev_hash, prev_expected_hash) ==
  prev_expected_hash = JNull \/ prev_hash # prev_expected_hash

\* a stored-hash rule without the test for None
StoredHashMismatch_NoneCompared(stored_hash, expected_hash) ==
  PyStr(stored_hash) # expected_hash

\* mutant: `if stored_hash:` in place of `if stored_hash is not None:`
StoredHashMismatch_Truthy(stored_hash, expected_hash) ==
  Truthy(stored_hash) /\ PyStr(stored_hash) # expected_hash

\* the stored-hash rule: a stored hash that is not None must be the expected one
StoredHashMismatch(stored_hash, expected_hash) ==
  stored_hash # JNull /\ PyStr(stored_hash) # expected_hash

\* the main loop of verify_ledger from position i (1-based); the positions it
\* reports are the code's 0-based ones
RECURSIVE VerifyFrom(_, _, _, _, _)
VerifyFrom(ledger, i, start, prev_expected_hash, strict_hash) ==
  IF i > Len(ledger)
  THEN [raised |-> FALSE, ret |-> Passed("verified")]
  ELSE
    LET block == ledger[i]
    IN IF ~IsDict(block)
       THEN [raised |-> FALSE, ret |-> Failure("not_dict", i - 1)]
       ELSE
         LET idx == PyInt(GetD(block, "index", JNum(i - 1)))
             m == map_legacy_fields(block)
             ts == IF HasKey(block, "timestamp")
                   THEN PyFloat(block[2]["timestamp"])
                   ELSE [ok |-> FALSE, val |-> 0]
             prev_hash == IF i = start
                          THEN PyStr(GetD(block, "prev_hash", GENESIS))
                          ELSE PyStr(GetD(block, "prev_hash", JStr("")))
             expected_hash ==
               hash_block(canonical_block_for_hash(idx.val, m[1], m[2], ts.val, prev_hash))
             stored_hash == Get(block, "hash")
         IN IF ~idx.ok
            THEN [raised |-> TRUE, ret |-> Failure("exception", i - 1)]
            ELSE IF m[1] = JNull \/ m[2] = JNull
            THEN [raised |-> FALSE, ret |-> Failure("missing_fields", i - 1)]
            ELSE IF ~ts.ok
            THEN [raised |-> FALSE, ret |-> Failure("bad_timestamp", i - 1)]
            ELSE IF i # start /\ BrokenLink(prev_hash, prev_expected_hash)
            THEN [raised |-> FALSE, ret |-> Failure("broken_chain", i - 1)]
            ELSE IF StoredHashMismatch(stored_hash, expected_hash)
            THEN [raised |-> FALSE, ret |-> Failure("tampering", i - 1)]
            ELSE IF stored_hash = JNull /\ strict_hash
            THEN [raised |-> FALSE, ret |-> Failure("missing_hash", i - 1)]
            ELSE VerifyFrom(ledger, i + 1, start, expected_hash, strict_hash)

\* a verification that anchors the first verified record at GENESIS
verify_ledger_AnchoredAtGenesis(file, strict_hash, allow_legacy_prefix) ==
  LET ld == load_ledger(file)
      ledger == ld.val
  IN IF ld.raised
     THEN [raised |-> TRUE, ret |-> Failure("malformed", -1)]
     ELSE IF Len(ledger) = 0
     THEN [raised |-> FALSE, ret |-> Passed("empty")]
     ELSE IF allow_legacy_prefix /\ FirstVerifiable(ledger) = 0
     THEN [raised |-> FALSE, ret |-> Failure("no_verifiable", -1)]
     ELSE LET start == IF allow_legacy_prefix THEN FirstVerifiable(ledger) ELSE 1
          IN IF IsDict(ledger[start]) /\ GetD(ledger[start], "prev_hash", GENESIS) # GENESIS
             THEN [raised |-> FALSE, ret |-> Failure("broken_chain", start - 1)]
             ELSE VerifyFrom(ledger, start, start, JNull, strict_hash)

\* a verification that certifies a ledger with nothing to verify
verify_ledger_NothingToVerify(file, strict_hash, allow_legacy_prefix) ==
  LET ld == load_ledger(file)
      ledger == ld.val
  IN IF ld.raised
     THEN [raised |-> TRUE, ret |-> Failure("malformed", -1)]
     ELSE IF Len(ledger) = 0
     THEN [raised |-> FALSE, ret |-> Passed("empty")]
     ELSE IF allow_legacy_prefix /\ FirstVerifiable(ledger) = 0
     THEN [raised |-> FALSE, ret |-> Passed("verified")]
     ELSE LET start == IF allow_legacy_prefix THEN FirstVerifiable(ledger) ELSE 1
          IN VerifyFrom(ledger, start, start, JNull, strict_hash)

\* verify_ledger(strict_hash, allow_legacy_prefix): whether it raised, and
\* the boolean it returns with the diagnostic it prints
verify_ledger(file, strict_hash, allow_legacy_prefix) ==
  LET ld == load_ledger(file)
      ledger == ld.val
  IN IF ld.raised
     THEN [raised |-> TRUE, ret |-> Failure("malformed", -1)]
     ELSE IF Len(ledger) = 0
     THEN [raised |-> FALSE, ret |-> Passed("empty")]
     ELSE IF allow_legacy_prefix /\ FirstVerifiable(ledger) = 0
     THEN [raised |-> FALSE, ret |-> Failure("no_verifiable", -1)]
     ELSE LET start == IF allow_legacy_prefix THEN FirstVerifiable(ledger) ELSE 1
          IN VerifyFrom(ledger, start, start, JNull, strict_hash)

\* ------------------------------------------------------------ migrate
\* a record the first pass of migrate_ledger_in_place keeps as a candidate
Candidate(block) ==
  /\ IsDict(block)
  /\ map_legacy_fields(block)[1] # JNull
  /\ map_legacy_fields(block)[2] # JNull
  /\ HasKey(block, "timestamp")

\* the quarantine record the first pass builds for the record at 0-based
\* position i
QuarantineRecord(block, i) ==
  IF ~IsDict(block)
  THEN JDict([k \in {"_reason", "_original_index", "value"} |->
                CASE k = "_reason" -> JStr("non-dict block")
                  [] k = "_original_index" -> JNum(i)
                  [] OTHER -> block])
  ELSE JDict([k \in DOMAIN block[2] \cup {"_reason", "_original_index"} |->
                CASE k = "_reason" -> JStr("missing organ/tier/timestamp")
                  [] k = "_original_index" -> JNum(i)
                  [] OTHER -> block[2][k]])

\* mutant: a record that is not an object is skipped without being quarantined
RECURSIVE Quarantined_ObjectsOnly(_, _)
Quarantined_ObjectsOnly(ledger, n) ==
  IF n = 0 THEN <<>>
  ELSE IF Candidate(ledger[n]) \/ ~IsDict(ledger[n])
       THEN Quarantined_ObjectsOnly(ledger, n - 1)
       ELSE Append(Quarantined_ObjectsOnly(ledger, n - 1),
                   QuarantineRecord(ledger[n], n - 1))

\* first pass: the records of ledger[1..n] that are quarantined / kept
RECURSIVE Quarantined(_, _)
Quarantined(ledger, n) ==
  IF n = 0 THEN <<>>
  ELSE IF Candidate(ledger[n])
       THEN Quarantined(ledger, n - 1)
       ELSE Append(Quarantined(ledger, n - 1), QuarantineRecord(ledger[n], n - 1))

RECURSIVE Cleaned(_, _)
Cleaned(ledger, n) ==
  IF n = 0 THEN <<>>
  ELSE IF Candidate(ledger[n])
       THEN Append(Cleaned(ledger, n - 1), ledger[n])
       ELSE Cleaned(ledger, n - 1)

\* a second pass that counts every block it rewrites
Changed_Always(old_block, new_index, prev_hash, expected_hash, organ, tier) == TRUE

\* mutant: the subject is compared under its legacy key
Changed_LegacyKey(old_block, new_index, prev_hash, expected_hash, organ, tier) ==
  \/ Get(old_block, "index") # JNum(new_index)
  \/ Get(old_block, "prev_hash") # prev_hash
  \/ Get(old_block, "hash") # expected_hash
  \/ Get(old_block, "name") # PyStr(organ)
  \/ Get(old_block, "tier") # PyStr(tier)

\* whether the second pass counts old_block as modified
Changed(old_block, new_index, prev_hash, expected_hash, organ, tier) ==
  \/ Get(old_block, "index") # JNum(new_index)
  \/ Get(old_block, "prev_hash") # prev_hash
  \/ Get(old_block, "hash") # expected_hash
  \/ Get(old_block, "organ") # PyStr(organ)
  \/ Get(old_block, "tier") # PyStr(tier)

\* second pass over cleaned[k..]: new_ledger and modified so far, prev_hash
\* the hash of the block before; raised where float(old_block["timestamp"])
\* raises
RECURSIVE Rewrite(_, _, _, _, _)
Rewrite(cleaned, k, new_ledger, prev_hash, modified) ==
  IF k > Len(cleaned)
  THEN [raised |-> FALSE, new_ledger |-> new_ledger, modified |-> modified]
  ELSE
    LET old_block == cleaned[k]
        new_index == k - 1
        m == map_legacy_fields(old_block)
        ts == PyFloat(old_block[2]["timestamp"])
        canonical == canonical_block_for_hash(new_index, PyStr(m[1]), PyStr(m[2]),
                                              ts.val, prev_hash)
        expected_hash == hash_block(canonical)
        changed == Changed(old_block, new_index, prev_hash, expected_hash, m[1], m[2])
    IN IF ~ts.ok
       THEN [raised |-> TRUE, new_ledger |-> new_ledger, modified |-> modified]
       ELSE Rewrite(cleaned, k + 1,
                    Append(new_ledger, StoredBlock(canonical, expected_hash)),
                    expected_hash,
                    IF changed THEN modified + 1 ELSE modified)

\* a migrate that rewrites the active ledger even when no candidate remains
migrate_ledger_in_place_SavesNothingLeft(lfile, qfile, bfile, backup) ==
  LET ld == load_ledger(lfile)
      ledger == ld.val
      n == Len(ledger)
      bfile1 == IF backup /\ lfile # FAbsent THEN atomic_write_text(read_text(lfile))
                ELSE bfile
      quarantined == Quarantined(ledger, n)
      qfile1 == IF Len(quarantined) > 0
                THEN save_json_list(load_json_list(qfile) \o quarantined)
                ELSE qfile
      rw == Rewrite(Cleaned(ledger, n), 1, <<>>, GENESIS, 0)
  IN IF ld.raised \/ n = 0
     THEN [raised |-> ld.raised, ret |-> <<0, 0, 0>>,
           ledger_file |-> lfile, quarantine_file |-> qfile, backup_file |-> bfile]
     ELSE IF rw.raised
     THEN [raised |-> TRUE, ret |-> <<0, 0, 0>>,
           ledger_file |-> lfile, quarantine_file |-> qfile1, backup_file |-> bfile1]
     ELSE [raised |-> FALSE, ret |-> <<rw.modified, Len(quarantined), n>>,
           ledger_file |-> save_ledger(rw.new_ledger),
           quarantine_file |-> qfile1, backup_file |-> bfile1]

\* migrate_ledger_in_place(backup): the three files it leaves, whether it
\* raised, and the (modified, quarantined, total) it returns
migrate_ledger_in_place(lfile, qfile, bfile, backup) ==
  LET ld == load_ledger(lfile)
      ledger == ld.val
      n == Len(ledger)
      bfile1 == IF backup /\ lfile # FAbsent THEN atomic_write_text(read_text(lfile))
                ELSE bfile
      quarantined == Quarantined(ledger, n)
      cleaned == Cleaned(ledger, n)
      qfile1 == IF Len(quarantined) > 0
                THEN save_json_list(load_json_list(qfile) \o quarantined)
                ELSE qfile
      rw == Rewrite(cleaned, 1, <<>>, GENESIS, 0)
  IN IF ld.raised
     THEN [raised |-> TRUE, ret |-> <<0, 0, 0>>,
           ledger_file |-> lfile, quarantine_file |-> qfile, backup_file |-> bfile]
     ELSE IF n = 0
     THEN [raised |-> FALSE, ret |-> <<0, 0, 0>>,
           ledger_file |-> lfile, quarantine_file |-> qfile, backup_file |-> bfile]
     ELSE IF Len(cleaned) = 0
     THEN [raised |-> FALSE, ret |-> <<0, Len(quarantined), n>>,
           ledger_file |-> lfile, quarantine_file |-> qfile1, backup_file |-> bfile1]
     ELSE IF rw.raised
     THEN [raised |-> TRUE, ret |-> <<0, 0, 0>>,
           ledger_file |-> lfile, quarantine_file |-> qfile1, backup_file |-> bfile1]
     ELSE [raised |-> FALSE, ret |-> <<rw.modified, Len(quarantined), n>>,
           ledger_file |-> save_ledger(rw.new_ledger),
           quarantine_file |-> qfile1, backup_file |-> bfile1]

\* ------------------------------------------------------------ the state machine
\* the records a file holds (none unless it is a JSON array)
Records(file) ==
  IF file[1] = "json" /\ IsList(file[2]) THEN file[2][2] ELSE <<>>

\* the arguments callers pass to append_ledger_entry, and the clock
Calls == {<<JStr("sentinel"), JStr("P0")>>, <<JStr("guardian"), JStr("P1")>>}
Times == 1..MaxTime

\* the three files as one value
Files == [ledger_file |-> ledger_file, quarantine_file |-> quarantine_file,
          backup_file |-> backup_file]

NoTamper == [kind |-> "none"]

\* no call is under way step by step
NoSteps == fsys = [ledger |-> FAbsent, tmp |-> FAbsent] /\ procs = <<>>

\* no ledger yet (absent file) or an empty one; no quarantine store, no backup
Init ==
  /\ ledger_file \in {FAbsent, FJson(JList(<<>>))}
  /\ quarantine_file = FAbsent
  /\ backup_file = FAbsent
  /\ last = [op |-> "none"]
  /\ tamper = NoTamper
  /\ NoSteps

\* one call of append_ledger_entry
AppendEntry ==
  \E call \in Calls, now \in Times :
    LET organ_name == call[1]
        tier == call[2]
        r == append_ledger_entry(ledger_file, organ_name, tier, now)
    IN /\ Len(Records(ledger_file)) < MaxLen
       /\ ledger_file' = r.ledger_file
       /\ last' = [op |-> "append", organ_name |-> organ_name, tier |-> tier,
                   now |-> now, raised |-> r.raised, pre |-> Files]
       /\ UNCHANGED <<quarantine_file, backup_file, tamper, fsys, procs>>

\* a verify that writes back the ledger it loaded
Verify_Normalises ==
  \E strict_hash \in BOOLEAN, allow_legacy_prefix \in BOOLEAN :
    LET r == verify_ledger(ledger_file, strict_hash, allow_legacy_prefix)
    IN /\ last' = [op |-> "verify", strict_hash |-> strict_hash,
                   allow_legacy_prefix |-> allow_legacy_prefix,
                   raised |-> r.raised, ret |-> r.ret, pre |-> Files]
       /\ ledger_file' = IF r.raised THEN ledger_file
                         ELSE save_ledger(load_ledger(ledger_file).val)
       /\ UNCHANGED <<quarantine_file, backup_file, tamper, fsys, procs>>

\* one call of verify_ledger
Verify ==
  \E strict_hash \in BOOLEAN, allow_legacy_prefix \in BOOLEAN :
    LET r == verify_ledger(ledger_file, strict_hash, allow_legacy_prefix)
    IN /\ last' = [op |-> "verify", strict_hash |-> strict_hash,
                   allow_legacy_prefix |-> allow_legacy_prefix,
                   raised |-> r.raised, ret |-> r.ret, pre |-> Files]
       /\ UNCHANGED <<ledger_file, quarantine_file, backup_file, tamper, fsys, procs>>

\* one call of migrate_ledger_in_place
Migrate ==
  \E backup \in BOOLEAN :
    LET r == migrate_ledger_in_place(ledger_file, quarantine_file, backup_file, backup)
    IN /\ Len(Records(r.quarantine_file)) <= MaxQuar
       /\ ledger_file' = r.ledger_file
       /\ quarantine_file' = r.quarantine_file
       /\ backup_file' = r.backup_file
       /\ last' = [op |-> "migrate", backup |-> backup,
                   raised |-> r.raised, ret |-> r.ret, pre |-> Files]
       /\ UNCHANGED <<tamper, fsys, procs>>

Next == AppendEntry \/ Verify \/ Migrate

Spec == Init /\ [][Next]_vars

\* ------------------------------------------------------------ a ledger found on disk
\* records an older version of the program, or anything else, left in the
\* ledger file
LegacyFull == JDict([name |-> JStr("audit_log"), priority |-> JStr("P1"),
                     timestamp |-> JNum(1)])
LegacyNoTimestamp == JDict([organ |-> JStr("sentinel"), tier |-> JStr("P0")])
LegacyUnmappable == JDict([note |-> JStr("boot")])
LegacyBadTimestamp == JDict([organ |-> JStr("sentinel"), tier |-> JStr("P0"),
                             timestamp |-> JStr("yesterday")])
LegacyFallback == JDict([organ |-> JNull, name |-> JStr(""), service |-> JStr("svc"),
                         tier |-> JStr("P0"), timestamp |-> JStr("2"),
                         prev_hash |-> JStr("GENESIS")])
BareString == JStr("junk")
GenesisBlock ==
  LET c == canonical_block_for_hash(0, JStr("sentinel"), JStr("P0"), 1, GENESIS)
  IN StoredBlock(c, hash_block(c))

SampleRecords == {LegacyFull, LegacyNoTimestamp, LegacyUnmappable, LegacyBadTimestamp,
                  LegacyFallback, BareString, GenesisBlock}

RECURSIVE SeqsUpTo(_, _)
SeqsUpTo(S, n) ==
  IF n = 0 THEN {<<>>}
  ELSE LET shorter == SeqsUpTo(S, n - 1)
       IN shorter \cup {Append(q, x) : q \in shorter, x \in S}

\* any sequence-shaped ledger of at most MaxInit records; no quarantine store
\* and no backup yet
InitLegacy ==
  /\ ledger_file \in {FJson(JList(q)) : q \in SeqsUpTo(SampleRecords, MaxInit)}
  /\ quarantine_file = FAbsent
  /\ backup_file = FAbsent
  /\ last = [op |-> "none"]
  /\ tamper = NoTamper
  /\ NoSteps

SpecLegacy == InitLegacy /\ [][Next]_vars

\* ------------------------------------------------------------ edits of the stored ledger
\* Someone with access to the ledger file edits it once, behind the
\* program's back; tamper records the edit (positions are 0-based).
Ledger == Records(ledger_file)

\* the block with one key set to another value
WithKey(block, k, v) == JDict([block[2] EXCEPT ![k] = v])

\* the block with its hash recomputed from its own canonical fields and stored
Rehashed(block) ==
  WithKey(block, "hash",
          hash_block(canonical_block_for_hash(block[2]["index"][2], block[2]["organ"],
                                              block[2]["tier"], block[2]["timestamp"][2],
                                              block[2]["prev_hash"])))

StoredHashes == {Ledger[k][2]["hash"] : k \in 1..Len(Ledger)}

\* values an editor may write over a stored hash
ForgedHashes == {JStr("deadbeef"), JStr(""), JNum(7), JNull, GENESIS} \cup StoredHashes

\* values an editor may write over a canonical field
ForgedValues(field) ==
  CASE field = "index" -> {JNum(k) : k \in 0..MaxLen}
    [] field = "organ" -> {JStr("sentinel"), JStr("guardian"), JStr("intruder")}
    [] field = "tier" -> {JStr("P0"), JStr("P1"), JStr("P9")}
    [] field = "timestamp" -> {JNum(t) : t \in 1..(MaxTime + 1)}
    [] OTHER -> {JStr("deadbeef"), GENESIS} \cup StoredHashes

CanonicalFields == {"index", "organ", "tier", "timestamp", "prev_hash"}

Edit(newledger, what) ==
  /\ tamper = NoTamper
  /\ ledger_file' = FJson(JList(newledger))
  /\ tamper' = what
  /\ last' = [op |-> "edit", pre |-> Files]
  /\ UNCHANGED <<quarantine_file, backup_file, fsys, procs>>

\* the stored hash of one block is overwritten, nothing else
TamperHash ==
  \E i \in 1..Len(Ledger) :
    \E h \in ForgedHashes \ {Ledger[i][2]["hash"]} :
      Edit([Ledger EXCEPT ![i] = WithKey(Ledger[i], "hash", h)],
           [kind |-> "hash", pos |-> i - 1, null |-> h = JNull])

\* one canonical field of one block is changed and the block's hash is
\* recomputed and stored
TamperField ==
  \E i \in 1..Len(Ledger), field \in CanonicalFields :
    \E v \in ForgedValues(field) \ {Ledger[i][2][field]} :
      Edit([Ledger EXCEPT ![i] = Rehashed(WithKey(Ledger[i], field, v))],
           [kind |-> "field", pos |-> i - 1, field |-> field])

\* one block is removed from a ledger of at least two
DeleteBlock ==
  \E i \in 1..Len(Ledger) :
    /\ Len(Ledger) >= 2
    /\ Edit([k \in 1..(Len(Ledger) - 1) |-> IF k < i THEN Ledger[k] ELSE Ledger[k + 1]],
            [kind |-> "delete", pos |-> i - 1])

\* two blocks change places
SwapBlocks ==
  \E i \in 1..Len(Ledger), j \in 1..Len(Ledger) :
    /\ i < j
    /\ Edit([Ledger EXCEPT ![i] = Ledger[j], ![j] = Ledger[i]],
            [kind |-> "swap", pos |-> i - 1, pos2 |-> j - 1])

\* the ledger is built by append_ledger_entry until it is edited
Build == tamper = NoTamper /\ AppendEntry

NextTamper == Build \/ TamperHash \/ TamperField \/ DeleteBlock \/ SwapBlocks \/ Verify

SpecTamper == Init /\ [][NextTamper]_vars

\* ------------------------------------------------------------ properties
\* the last call was verify_ledger and returned normally
Verified == last.op = "verify" /\ ~last.raised

\* the digest of a stored block's own five canonical fields
OwnDigest(block) ==
  hash_block(canonical_block_for_hash(block[2]["index"][2], block[2]["organ"],
                                      block[2]["tier"], block[2]["timestamp"][2],
                                      block[2]["prev_hash"]))

\* C1: on a ledger built by append_entry from an empty or absent ledger,
\* verify(strict_hash=true) returns true, for either allow_legacy_prefix.
C1_StrictVerifyOfAppendedLedger ==
  (last.op = "verify" /\ last.strict_hash) =>
    (~last.raised /\ last.ret = Passed(IF Len(Ledger) = 0 THEN "empty" ELSE "verified"))

C1_Witness ==
  /\ Verified /\ last.strict_hash /\ ~last.allow_legacy_prefix
  /\ Len(Ledger) >= 2
  /\ last.ret.ok

\* C2 as stated: on a ledger built by append_entry, overwriting only the
\* stored hash of block i with a different value makes verify return false,
\* reporting tampering at index i.
C2_Original ==
  (last.op = "verify" /\ tamper.kind = "hash") =>
    (~last.raised /\ last.ret = Failure("tampering", tamper.pos))

\* C2 amended: so it is for every different value but null; a hash overwritten
\* with null is a missing hash, which fails at index i under strict_hash only.
C2_ForgedHashIsTamperingAtIndex ==
  (last.op = "verify" /\ tamper.kind = "hash") =>
    /\ ~last.raised
    /\ last.ret = IF ~tamper.null THEN Failure("tampering", tamper.pos)
                  ELSE IF last.strict_hash THEN Failure("missing_hash", tamper.pos)
                  ELSE Passed("verified")

C2_Witness ==
  /\ Verified /\ tamper.kind = "hash" /\ tamper.pos = 1 /\ ~tamper.null
  /\ Len(Ledger) >= 3
  /\ last.ret = Failure("tampering", 1)

\* C3 as stated: changing one canonical field of block i and recomputing its
\* hash makes verify return false and report index i.
C3_Original ==
  (last.op = "verify" /\ tamper.kind = "field") =>
    (~last.raised /\ ~last.ret.ok /\ last.ret.index = tamper.pos)

\* C3 amended: the edited block itself passes unless its prev_hash was changed
\* and it is not block 0 (broken chain at i); otherwise the failure is a
\* broken chain at i+1, and there is none when block i is the last block.
C3_RehashedFieldBreaksNextLink ==
  (last.op = "verify" /\ tamper.kind = "field") =>
    /\ ~last.raised
    /\ last.ret =
         IF tamper.field = "prev_hash" /\ tamper.pos > 0
         THEN Failure("broken_chain", tamper.pos)
         ELSE IF tamper.pos + 1 < Len(Ledger)
         THEN Failure("broken_chain", tamper.pos + 1)
         ELSE Passed("verified")

C3_Witness ==
  /\ Verified /\ tamper.kind = "field" /\ tamper.field = "timestamp"
  /\ tamper.pos = 0 /\ Len(Ledger) >= 2
  /\ last.ret = Failure("broken_chain", 1)

\* the 0-based positions whose prev_hash differs from the hash computed for
\* the record before them
BrokenLinks ==
  {p \in 1..(Len(Ledger) - 1) : Ledger[p + 1][2]["prev_hash"] # OwnDigest(Ledger[p])}

FirstBrokenLink == CHOOSE p \in BrokenLinks : \A q \in BrokenLinks : p <= q

\* C4 as stated: removing one block (first and last included) or exchanging
\* two blocks makes verify return false with a broken-chain failure at the
\* first position whose prev_hash differs from the hash computed for the
\* record before it.
C4_Original ==
  (last.op = "verify" /\ tamper.kind \in {"delete", "swap"}) =>
    /\ ~last.raised
    /\ BrokenLinks # {}
    /\ last.ret = Failure("broken_chain", FirstBrokenLink)

\* C4 amended: the failure is reported for an exchange and for the removal of
\* a block that is neither the first nor the last; after the removal of the
\* first or the last block verify returns true.
C4_InnerRemovalOrSwapBreaksChain ==
  (last.op = "verify" /\ tamper.kind \in {"delete", "swap"}) =>
    /\ ~last.raised
    /\ IF tamper.kind = "delete" /\ (tamper.pos = 0 \/ tamper.pos = Len(Ledger))
       THEN last.ret = Passed("verified")
       ELSE BrokenLinks # {} /\ last.ret = Failure("broken_chain", FirstBrokenLink)

C4_Witness ==
  /\ Verified /\ tamper.kind = "delete" /\ tamper.pos = 1
  /\ Len(Ledger) = 2
  /\ last.ret = Failure("broken_chain", 1)

\* C5: in every ledger reachable from an empty one by append_entry and
\* migrate, block 0 has prev_hash GENESIS, block i>0 has the stored hash of
\* block i-1 as prev_hash, and every stored hash is the digest of the block's
\* own five canonical fields.
C5_ChainLinksAndDigests ==
  \A i \in 1..Len(Ledger) :
    /\ IsDict(Ledger[i])
    /\ Get(Ledger[i], "prev_hash") =
         IF i = 1 THEN GENESIS ELSE Get(Ledger[i - 1], "hash")
    /\ Get(Ledger[i], "hash") = OwnDigest(Ledger[i])

C5_Witness ==
  /\ last.op = "migrate" /\ ~last.raised
  /\ Len(Ledger) >= 3
  /\ Get(Ledger[3], "prev_hash") = Get(Ledger[2], "hash")

\* C6: in every such ledger the block at position i has index i.
C6_DenseIndices ==
  \A i \in 1..Len(Ledger) :
    IsDict(Ledger[i]) /\ Get(Ledger[i], "index") = JNum(i - 1)

C6_Witness ==
  /\ last.op = "append" /\ ~last.raised
  /\ Len(Ledger) >= 3
  /\ Get(Ledger[3], "index") = JNum(2)

\* what the last call found and left
Orig == Records(last.pre.ledger_file)
QPre == Records(last.pre.quarantine_file)
QNow == Records(quarantine_file)
Migrated == last.op = "migrate" /\ ~last.raised

\* rec is the quarantine record of the original record at 1-based position j:
\* its fields (or the bare value) with a reason and the 0-based position
QuarantinedAs(j, rec) ==
  /\ IsDict(rec)
  /\ Get(rec, "_reason")[1] = "str"
  /\ Get(rec, "_original_index") = JNum(j - 1)
  /\ IF IsDict(Orig[j])
     THEN /\ DOMAIN rec[2] = DOMAIN Orig[j][2] \cup {"_reason", "_original_index"}
          /\ \A k \in DOMAIN Orig[j][2] : rec[2][k] = Orig[j][2][k]
     ELSE Get(rec, "value") = Orig[j]

\* the last call added the quarantine record of original record j
InQuarantine(j) ==
  \E q \in (Len(QPre) + 1)..Len(QNow) : QuarantinedAs(j, QNow[q])

Kept == {j \in 1..Len(Orig) : ~InQuarantine(j)}

\* original record j is the Rank(j)-th record kept, and the active ledger
\* holds at that place a block with its resolved subject, category, timestamp
Rank(j) == Cardinality({m \in Kept : m <= j})

Represented(j) ==
  /\ IsDict(Orig[j])
  /\ HasKey(Orig[j], "timestamp")
  /\ PyFloat(Orig[j][2]["timestamp"]).ok
  /\ Rank(j) <= Len(Ledger)
  /\ IsDict(Ledger[Rank(j)])
  /\ Get(Ledger[Rank(j)], "organ") = map_legacy_fields(Orig[j])[1]
  /\ Get(Ledger[Rank(j)], "tier") = map_legacy_fields(Orig[j])[2]
  /\ PyFloat(Get(Ledger[Rank(j)], "timestamp")) = PyFloat(Orig[j][2]["timestamp"])

\* C7: after migrate returns, every original record is either represented in
\* the active ledger by a block with its resolved subject, category and
\* timestamp, in the original order, or stored in the quarantine store with
\* its fields, a reason and its original position.
C7_EveryRecordAccountedFor ==
  Migrated => \A j \in 1..Len(Orig) : InQuarantine(j) \/ Represented(j)

C7_Witness ==
  /\ Migrated
  /\ Len(Orig) >= 2
  /\ ~IsDict(Orig[1]) /\ InQuarantine(1)
  /\ ~InQuarantine(2) /\ Represented(2)
  /\ ledger_file # last.pre.ledger_file

IsPrefix(q, r) == Len(q) <= Len(r) /\ \A k \in 1..Len(q) : r[k] = q[k]

\* C8: the quarantine store only grows: append_entry and verify leave it
\* alone, and after migrate it holds what it held before followed by the
\* records that run quarantined.
C8_QuarantineOnlyGrows ==
  (last.op \in {"append", "verify", "migrate"}) =>
    /\ IsPrefix(QPre, QNow)
    /\ last.op # "migrate" => quarantine_file = last.pre.quarantine_file
    /\ Migrated => Len(QNow) = Len(QPre) + last.ret[2]

C8_Witness ==
  /\ Migrated
  /\ Len(QPre) >= 1
  /\ last.ret[2] >= 1
  /\ Len(QNow) = Len(QPre) + last.ret[2]

\* a chain as append_entry and migrate write it
IsCanonicalChain(ledger) ==
  \A i \in 1..Len(ledger) :
    /\ IsDict(ledger[i])
    /\ DOMAIN ledger[i][2] = {"index", "organ", "tier", "timestamp", "prev_hash", "hash"}
    /\ ledger[i][2]["index"] = JNum(i - 1)
    /\ ledger[i][2]["organ"][1] \in {"str", "sha", "repr"}
    /\ ledger[i][2]["tier"][1] \in {"str", "sha", "repr"}
    /\ ledger[i][2]["timestamp"][1] = "num"
    /\ ledger[i][2]["prev_hash"] =
         IF i = 1 THEN GENESIS ELSE ledger[i - 1][2]["hash"]
    /\ ledger[i][2]["hash"] = OwnDigest(ledger[i])

\* C9: on a canonical ledger migrate returns modified 0 and quarantined 0 and
\* leaves the active ledger as it was.
C9_MigrateIdempotentOnCanonical ==
  (last.op = "migrate" /\ IsCanonicalChain(Orig)) =>
    /\ ~last.raised
    /\ last.ret = <<0, 0, Len(Orig)>>
    /\ Ledger = Orig
    /\ quarantine_file = last.pre.quarantine_file

\* a second migrate, on the chain an earlier migrate (whose backup shows the
\* ledger it found was not canonical) wrote
C9_Witness ==
  /\ Migrated /\ IsCanonicalChain(Orig)
  /\ Len(Orig) >= 2
  /\ ~IsCanonicalChain(Records(last.pre.backup_file))
  /\ last.ret = <<0, 0, Len(Orig)>>

\* C10: migrate never raises on a ledger whose top level is a sequence,
\* whatever its records contain.
C10_MigrateNeverRaises ==
  last.op = "migrate" => ~last.raised

\* ------------------------------------------------------------ any stored files
\* a record whose index is not a number
LegacyBadIndex == JDict([index |-> JStr("first"), organ |-> JStr("sentinel"),
                         tier |-> JStr("P0"), timestamp |-> JNum(1)])

StoreRecords == {LegacyBadIndex, GenesisBlock}

\* a record with neither subject nor category, whose index is not a number
LegacyBadIndexNoSubject == JDict([index |-> JStr("first"), note |-> JStr("boot")])

\* a block with index 1 and the given prev_hash, its stored hash the digest of
\* its own fields
SecondBlock(prev_hash) ==
  LET c == canonical_block_for_hash(1, JStr("guardian"), JStr("P1"), 1, prev_hash)
  IN StoredBlock(c, hash_block(c))

\* the digest of the canonical fields of LegacyFull at position 0
LegacyFullDigest ==
  hash_block(canonical_block_for_hash(0, JStr("audit_log"), JStr("P1"), 1, GENESIS))

\* what the record after LegacyFull may state as prev_hash
StatedPrevHashes == {LegacyFullDigest, GENESIS, JStr(""), JStr("deadbeef"), JNull}

\* other ledgers found on disk: one saved with CR LF line endings, one that
\* begins with a record migrate quarantines, one whose second record does
\* not resolve and has an index that is not a number, and a record without a
\* stored hash followed by a block stating some prev_hash
FoundLedgers ==
  {FJsonCRLF(JList(<<GenesisBlock>>)),
   FJson(JList(<<BareString, GenesisBlock>>)),
   FJson(JList(<<GenesisBlock, LegacyBadIndexNoSubject>>))}
  \cup {FJson(JList(<<LegacyFull, SecondBlock(ph)>>)) : ph \in StatedPrevHashes}

\* a ledger file that load_ledger rejects: not JSON text, or JSON whose top
\* level is not an array
MalformedFiles == {FInvalid, FJson(JDict([blocks |-> JList(<<>>)]))}

\* a quarantine store and a backup left by earlier runs, readable or not
StoredQuarantines ==
  {FAbsent, FInvalid, FJson(JNull), FJson(JList(<<QuarantineRecord(BareString, 1)>>))}
StoredBackups == {FAbsent, FJson(JList(<<GenesisBlock>>))}

\* whatever is found on disk: a malformed ledger or a sequence of at most
\* MaxInit records, beside any quarantine store and backup
InitStore ==
  /\ ledger_file \in MalformedFiles \cup FoundLedgers
                       \cup {FJson(JList(q)) : q \in SeqsUpTo(StoreRecords, MaxInit)}
  /\ quarantine_file \in StoredQuarantines
  /\ backup_file \in StoredBackups
  /\ last = [op |-> "none"]
  /\ tamper = NoTamper
  /\ NoSteps

SpecStore == InitStore /\ [][Next]_vars

\* a file that is not JSON text, or JSON whose top level is not a sequence
Malformed(file) == file = FInvalid \/ (file[1] = "json" /\ ~IsList(file[2]))

\* the last call was made on a malformed ledger file
OnMalformed ==
  /\ last.op \in {"append", "verify", "migrate"}
  /\ Malformed(last.pre.ledger_file)

\* C11: on a stored ledger whose top level is a sequence verify never raises:
\* it returns a boolean, false for every integrity failure.
C11_VerifyNeverRaises ==
  (last.op = "verify" /\ ~Malformed(last.pre.ledger_file)) =>
    /\ ~last.raised
    /\ last.ret.ok \in BOOLEAN

\* C12: on a ledger file that is not JSON or not a sequence, append_entry,
\* verify and migrate each raise the malformed-ledger error of load and leave
\* the ledger file, the quarantine store and the backup as they were.
C12_MalformedRaisesAndWritesNothing ==
  OnMalformed =>
    /\ last.raised
    /\ (last.op = "verify" => last.ret.reason = "malformed")
    /\ Files = last.pre

\* migrate with backup requested, on a malformed ledger beside an existing
\* quarantine store and backup
C12_Witness ==
  /\ OnMalformed
  /\ last.op = "migrate" /\ last.backup
  /\ last.pre.ledger_file = FInvalid
  /\ last.pre.quarantine_file # FAbsent
  /\ last.pre.backup_file # FAbsent

\* ------------------------------------------------------------ a save, step by step
\* The text of a file is a sequence of chunks, written one write at a time:
\* one chunk per record and a closing one.  fsys holds the text at the
\* ledger path and at the temporary path (FAbsent where there is no file).
\* procs[p] is the call process p is making: where it stands (pc), the file
\* it loaded (old), the records it saves (doc), how many chunks it has
\* written (off) and where the file it holds open now lives (fd).
Text(records) ==
  [k \in 1..(Len(records) + 1) |->
     IF k <= Len(records) THEN <<"rec", records[k]>> ELSE <<"end">>]

\* the text of a well-formed ledger file
Raw(file) == IF file = FAbsent THEN FAbsent ELSE <<"text", Text(Records(file))>>

\* read_text and json.loads of the file at a path
Parse(raw) ==
  IF raw = FAbsent THEN FAbsent
  ELSE LET c == raw[2]
           n == Len(c)
       IN IF n >= 1 /\ c[n] = <<"end">> /\ \A k \in 1..(n - 1) : c[k][1] = "rec"
          THEN FJson(JList(IF n = 1 THEN <<>> ELSE [k \in 1..(n - 1) |-> c[k][2]]))
          ELSE FInvalid

\* one write of a chunk at position pos of a file (a gap is left where the
\* file was truncated below pos meanwhile)
WriteAt(raw, pos, chunk) ==
  LET c == raw[2]
      n == IF Len(c) > pos THEN Len(c) ELSE pos
  IN <<"text", [k \in 1..n |-> IF k = pos THEN chunk
                               ELSE IF k <= Len(c) THEN c[k] ELSE <<"hole">>]>>

\* a save that writes the destination itself
tmp_InPlace == "ledger"

\* the path _atomic_write_text writes before the rename
tmp == "tmp"

Idle == [pc |-> "idle", op |-> "none", old |-> FAbsent, doc |-> <<>>, off |-> 0,
         fd |-> "none"]

InProgress(p) == procs[p].pc \in {"write_text", "writing", "replace"}

\* append_ledger_entry up to the call of save_ledger
BeginAppend(p) ==
  \E call \in Calls, now \in Times :
    LET r == append_ledger_entry(ledger_file, call[1], call[2], now)
    IN /\ procs[p].pc = "idle"
       /\ Len(Records(ledger_file)) < MaxLen
       /\ procs' = [procs EXCEPT ![p] =
                      [pc |-> IF r.raised THEN "raised" ELSE "write_text",
                       op |-> "append", old |-> ledger_file,
                       doc |-> Records(r.ledger_file), off |-> 0, fd |-> "none"]]
       /\ UNCHANGED <<ledger_file, quarantine_file, backup_file, last, tamper, fsys>>

\* migrate_ledger_in_place up to the call of save_ledger, or to its return
\* where it does not save (the backup and the quarantine store are written
\* in this step)
BeginMigrate(p) ==
  \E backup \in BOOLEAN :
    LET r == migrate_ledger_in_place(ledger_file, quarantine_file, backup_file, backup)
        saves == ~r.raised /\ r.ret[3] > r.ret[2]
    IN /\ procs[p].pc = "idle"
       /\ Len(Records(r.quarantine_file)) <= MaxQuar
       /\ procs' = [procs EXCEPT ![p] =
                      [pc |-> IF r.raised THEN "raised"
                              ELSE IF saves THEN "write_text" ELSE "done",
                       op |-> "migrate", old |-> ledger_file,
                       doc |-> Records(r.ledger_file), off |-> 0, fd |-> "none"]]
       /\ quarantine_file' = r.quarantine_file
       /\ backup_file' = r.backup_file
       /\ UNCHANGED <<ledger_file, last, tamper, fsys>>

\* tmp.write_text opens the temporary path for writing: the file there is
\* created, or emptied if there is one
OpenTmp(p) ==
  /\ procs[p].pc = "write_text"
  /\ fsys' = [fsys EXCEPT ![tmp] = <<"text", <<>>>>]
  /\ procs' = [procs EXCEPT ![p].pc = "writing", ![p].fd = tmp]
  /\ ledger_file' = Parse(fsys'.ledger)
  /\ UNCHANGED <<quarantine_file, backup_file, last, tamper>>

\* tmp.write_text writes the next chunk to the file it holds open, and
\* closes the file after the last one
WriteChunk(p) ==
  LET me == procs[p]
      text == Text(me.doc)
      pos == me.off + 1
  IN /\ me.pc = "writing"
     /\ fsys' = IF me.fd \in {"tmp", "ledger"} /\ fsys[me.fd] # FAbsent
                THEN [fsys EXCEPT ![me.fd] = WriteAt(fsys[me.fd], pos, text[pos])]
                ELSE fsys
     /\ procs' = [procs EXCEPT ![p].off = pos,
                               ![p].pc = IF pos = Len(text) THEN "replace" ELSE "writing",
                               ![p].fd = IF pos = Len(text) THEN "none" ELSE me.fd]
     /\ ledger_file' = Parse(fsys'.ledger)
     /\ UNCHANGED <<quarantine_file, backup_file, last, tamper>>

\* tmp.replace(path): the file at the temporary path, whoever is writing it,
\* becomes the file at the ledger path; FileNotFoundError where there is none
Replace(p) ==
  /\ procs[p].pc = "replace"
  /\ IF fsys.tmp = FAbsent
     THEN /\ procs' = [procs EXCEPT ![p].pc = "raised"]
          /\ UNCHANGED fsys
     ELSE /\ fsys' = [ledger |-> fsys.tmp, tmp |-> FAbsent]
          /\ procs' = [q \in DOMAIN procs |->
                         IF q = p THEN [procs[q] EXCEPT !.pc = "done"]
                         ELSE [procs[q] EXCEPT !.fd =
                                 CASE procs[q].fd = "tmp" -> "ledger"
                                   [] procs[q].fd = "ledger" -> "unlinked"
                                   [] OTHER -> procs[q].fd]]
  /\ ledger_file' = Parse(fsys'.ledger)
  /\ UNCHANGED <<quarantine_file, backup_file, last, tamper>>

\* the process dies inside _atomic_write_text
Crash(p) ==
  /\ InProgress(p)
  /\ procs' = [procs EXCEPT ![p].pc = "crashed", ![p].fd = "none"]
  /\ UNCHANGED <<ledger_file, quarantine_file, backup_file, last, tamper, fsys>>

\* a reader calls load_ledger
Load ==
  /\ last' = [op |-> "load", raised |-> load_ledger(ledger_file).raised,
              val |-> load_ledger(ledger_file).val, pre |-> last.pre]
  /\ UNCHANGED <<ledger_file, quarantine_file, backup_file, tamper, fsys, procs>>

Step(p) == BeginAppend(p) \/ BeginMigrate(p) \/ OpenTmp(p) \/ WriteChunk(p) \/ Replace(p)

\* the ledgers a call may find: none, an empty one, one block, a legacy
\* record and one that migrate quarantines
StartLedgers ==
  {FAbsent, FJson(JList(<<>>)), FJson(JList(<<GenesisBlock>>)),
   FJson(JList(<<LegacyFull, BareString>>))}

\* what a writer that crashed earlier may have left at the temporary path
StaleTmp == <<"text", <<<<"rec", GenesisBlock>>>>>>

InitSteps(writers) ==
  /\ ledger_file \in StartLedgers
  /\ quarantine_file = FAbsent
  /\ backup_file = FAbsent
  /\ last = [op |-> "none", pre |-> Files]
  /\ tamper = NoTamper
  /\ fsys \in {[ledger |-> Raw(ledger_file), tmp |-> t] : t \in {FAbsent, StaleTmp}}
  /\ procs = [p \in writers |-> Idle]

\* one writer, which may crash, and a reader
InitSave == InitSteps({1})
NextSave == Step(1) \/ Crash(1) \/ Load
SpecSave == InitSave /\ [][NextSave]_vars

\* two writers in independent processes, no lock
Racers == {1, 2}
InitRace == InitSteps(Racers)
NextRace == \E p \in Racers : Step(p)
SpecRace == InitRace /\ [][NextRace]_vars

\* the file a completed save of the records leaves
Saved(doc) == FJson(JList(doc))

\* C13: with a single writer the ledger path holds the complete previous
\* version for as long as a save is under way and after a crash at any of its
\* steps, the complete new version once the save has returned, and a reader
\* that loads at any moment gets one of the two, never a partial text.
C13_SingleWriterSaveIsAtomic ==
  LET w == procs[1]
  IN /\ ~Malformed(ledger_file)
     /\ (InProgress(1) \/ w.pc = "crashed") => ledger_file = w.old
     /\ w.pc = "done" => Records(ledger_file) = w.doc
     /\ last.op = "load" =>
          /\ ~last.raised
          /\ last.val \in {Records(last.pre.ledger_file), Records(w.old), w.doc}

\* the writer crashed after writing part of a text of at least three chunks,
\* and a reader has loaded the ledger since the save began
C13_Witness ==
  /\ procs[1].pc = "crashed"
  /\ procs[1].off >= 1 /\ procs[1].off < Len(Text(procs[1].doc))
  /\ Len(procs[1].doc) >= 2
  /\ Parse(fsys.tmp) = FInvalid
  /\ last.op = "load" /\ last.val = Records(procs[1].old)

\* the files complete saves of the calls made so far leave, and the file
\* found at the start
SavedSoFar ==
  {last.pre.ledger_file} \cup {Saved(procs[p].doc) : p \in {q \in DOMAIN procs :
                                  procs[q].pc \in {"write_text", "writing", "replace",
                                                   "done", "crashed"}}}

\* C14: with concurrent writers the file at the ledger path is at every
\* moment a complete sequence written by one single save.
C14_NeverPartialOrTorn ==
  /\ ~Malformed(ledger_file)
  /\ ledger_file \in SavedSoFar

\* both processes called append_ledger_entry and both calls returned
BothAppended ==
  \A p \in Racers : procs[p].op = "append" /\ procs[p].pc = "done"

\* process q loaded the ledger that the save of process p left
RanAfter(q, p) == procs[q].old = Saved(procs[p].doc)

\* C15: of two append_ledger_entry calls in independent processes that both
\* return, the ledger ends as the one or the other call saved it: with both
\* new blocks, in order, when one call ran after the other, and with one new
\* block only, the other lost, when both loaded the same ledger.
C15_LostUpdateUnlessSequential ==
  BothAppended =>
    LET n == Len(Records(last.pre.ledger_file))
    IN /\ ledger_file \in {Saved(procs[p].doc) : p \in Racers}
       /\ \A p \in Racers, q \in Racers :
            RanAfter(q, p) =>
              /\ Len(Ledger) = n + 2
              /\ Ledger[n + 1] = procs[p].doc[n + 1]
              /\ Ledger[n + 2] = procs[q].doc[n + 2]
              /\ Ledger[n + 2][2]["index"] = JNum(n + 1)
              /\ Ledger[n + 2][2]["prev_hash"] = Ledger[n + 1][2]["hash"]
       /\ procs[1].old = procs[2].old => Len(Ledger) = n + 1

\* two calls with different arguments loaded the same ledger and both
\* returned; the ledger holds the block of process 2 only
C15_Witness ==
  /\ BothAppended
  /\ procs[1].old = procs[2].old
  /\ procs[1].doc # procs[2].doc
  /\ ledger_file = Saved(procs[2].doc)
  /\ Len(Ledger) = Len(Records(last.pre.ledger_file)) + 1

\* ------------------------------------------------------------ a legacy record, then an append
\* the ledger of one legacy record with name, priority and timestamp only,
\* followed by the block append_ledger_entry adds to it
LegacyPair(ledger) ==
  /\ Len(ledger) = 2
  /\ ledger[1] = LegacyFull
  /\ \E call \in Calls, now \in Times :
       ledger[2] = NewBlock(<<LegacyFull>>, call[1], call[2], now)

VerifiedPair == last.op = "verify" /\ LegacyPair(Orig)

\* C16: on the legacy record followed by the appended block,
\* verify(allow_legacy_prefix=true) returns true (strict_hash at its default,
\* false).
C16_LegacyPairVerifiesWithPrefixAllowed ==
  (VerifiedPair /\ last.allow_legacy_prefix /\ ~last.strict_hash) =>
    /\ ~last.raised
    /\ last.ret = Passed("verified")

\* the appended block's prev_hash is a digest derived for the legacy record,
\* which stores none, and verify(allow_legacy_prefix=true) has returned
C16_Witness ==
  /\ VerifiedPair /\ last.allow_legacy_prefix /\ ~last.strict_hash
  /\ ~HasKey(Orig[1], "hash")
  /\ Orig[2][2]["prev_hash"] =
       hash_block(canonical_block_for_hash(0, JStr("audit_log"), JStr("P1"), 1, GENESIS))
  /\ last.ret.ok

\* C17 as stated: on that ledger verify(allow_legacy_prefix=false) returns
\* false.
C17_Original ==
  (VerifiedPair /\ ~last.allow_legacy_prefix) => (~last.raised /\ ~last.ret.ok)

\* C17: on that ledger verify(allow_legacy_prefix=false) returns what
\* verify(allow_legacy_prefix=true) returns: true with strict_hash false (the
\* legacy record resolves, so it is verified in both modes), and false only
\* with strict_hash true, for the hash the legacy record lacks at position 0.
C17_LegacyPairVerifiesWithoutPrefixToo ==
  (VerifiedPair /\ ~last.allow_legacy_prefix) =>
    /\ ~last.raised
    /\ last.ret = IF last.strict_hash THEN Failure("missing_hash", 0)
                  ELSE Passed("verified")
    /\ last.ret = verify_ledger(last.pre.ledger_file, last.strict_hash, TRUE).ret

\* verify(allow_legacy_prefix=false, strict_hash=false) has returned true on
\* the legacy record followed by the appended block
C17_Witness ==
  /\ VerifiedPair /\ ~last.allow_legacy_prefix /\ ~last.strict_hash
  /\ Orig[2][2]["index"] = JNum(1)
  /\ last.ret.ok

\* ------------------------------------------------------------ what a call returns and leaves
\* the last call was append_ledger_entry and returned normally
Appended == last.op = "append" /\ ~last.raised

\* the record carries a stored hash: a non-empty string
CarriesHash(block) ==
  /\ IsDict(block) /\ HasKey(block, "hash")
  /\ block[2]["hash"][1] \in {"str", "sha", "repr"}
  /\ block[2]["hash"] # JStr("")

\* C18: append_entry on a ledger of n records leaves the n records as they
\* were and adds exactly one block, with index n and the given subject and
\* category; its prev_hash is GENESIS when n = 0, and the last record's
\* stored hash verbatim when n > 0 and that record carries one.
C18_AppendAddsOneChainedBlock ==
  Appended =>
    LET n == Len(Orig)
        new == Ledger[n + 1]
    IN /\ Len(Ledger) = n + 1
       /\ \A k \in 1..n : Ledger[k] = Orig[k]
       /\ IsDict(new)
       /\ Get(new, "index") = JNum(n)
       /\ Get(new, "organ") = last.organ_name
       /\ Get(new, "tier") = last.tier
       /\ n = 0 => Get(new, "prev_hash") = GENESIS
       /\ (n > 0 /\ CarriesHash(Orig[n])) =>
            Get(new, "prev_hash") = Orig[n][2]["hash"]

\* the second of two appends on an empty ledger: the one record found is a
\* first block as append_ledger_entry writes it, and the new block's
\* prev_hash is that block's hash
C18_Witness ==
  /\ Appended
  /\ Len(Orig) = 1
  /\ \E call \in Calls, now \in Times : Orig[1] = NewBlock(<<>>, call[1], call[2], now)
  /\ Get(Ledger[2], "prev_hash") = Get(Ledger[1], "hash")
  /\ Get(Ledger[2], "organ") # Get(Ledger[1], "organ")

\* the record is an object whose subject, category and timestamp resolve
Resolves(block) ==
  /\ IsDict(block)
  /\ map_legacy_fields(block)[1] # JNull
  /\ map_legacy_fields(block)[2] # JNull
  /\ HasKey(block, "timestamp")

Unresolved == {j \in 1..Len(Orig) : ~Resolves(Orig[j])}
Candidates == {j \in 1..Len(Orig) : Resolves(Orig[j])}

\* the place of candidate j in the rewritten ledger
NewPlace(j) == Cardinality({m \in Candidates : m <= j})

\* the stored index, prev_hash, hash, organ or tier of the old record is not
\* that of the rewritten block
Differs(old_block, new_block) ==
  \E f \in {"index", "prev_hash", "hash", "organ", "tier"} :
    Get(old_block, f) # Get(new_block, f)

\* C19: migrate on n records returns (modified, quarantined, total) with
\* total = n, quarantined the number of records that are not objects or whose
\* subject, category or timestamp does not resolve, and modified the number of
\* candidates whose stored index, prev_hash, hash, subject or category differs
\* from the block rewritten for them; on three records with a bare string in
\* the middle it returns quarantined 1 and total 3 and leaves two blocks with
\* indices 0 and 1.
C19_MigrateCounts ==
  Migrated =>
    /\ last.ret[3] = Len(Orig)
    /\ last.ret[2] = IF Len(Orig) = 0 THEN 0 ELSE Cardinality(Unresolved)
    /\ last.ret[1] =
         IF Candidates = {} THEN 0
         ELSE Cardinality({j \in Candidates : Differs(Orig[j], Ledger[NewPlace(j)])})
    /\ (Len(Orig) = 3 /\ Unresolved = {2} /\ ~IsDict(Orig[2])) =>
         /\ last.ret[2] = 1 /\ last.ret[3] = 3
         /\ Len(Ledger) = 2
         /\ Get(Ledger[1], "index") = JNum(0)
         /\ Get(Ledger[2], "index") = JNum(1)

\* migrate has returned on three records with a bare string in the middle:
\* one quarantined, two rewritten, one of the two already as rewritten
C19_Witness ==
  /\ Migrated
  /\ Len(Orig) = 3 /\ Orig[2] = BareString /\ Unresolved = {2}
  /\ last.ret = <<1, 1, 3>>
  /\ Len(Ledger) = 2
  /\ Ledger[1] = Orig[1]

\* C20: when every record of a non-empty ledger is quarantined, migrate
\* returns (0, quarantined, total) and leaves the active ledger file exactly
\* as it was; and no migrate call, however it ends, leaves an empty active
\* ledger where it found a non-empty one.
C20_MigrateLeavesLedgerWhenNothingRemains ==
  (last.op = "migrate" /\ Len(Orig) > 0) =>
    /\ Candidates = {} =>
         /\ ~last.raised
         /\ last.ret = <<0, Len(Orig), Len(Orig)>>
         /\ ledger_file = last.pre.ledger_file
    /\ Len(Ledger) > 0

\* migrate has quarantined both records of a ledger of two and returned
C20_Witness ==
  /\ Migrated
  /\ Len(Orig) = 2 /\ Candidates = {}
  /\ Len(QNow) = Len(QPre) + 2
  /\ last.ret = <<0, 2, 2>>
  /\ Ledger = Orig

\* ------------------------------------------------------------ backup, frames, the quarantine store
\* C21: after migrate(backup=true) on a non-empty ledger the backup is, byte
\* for byte, the ledger file as it was before the call (it is written first,
\* so this holds however the call ends).
C21_BackupIsByteIdentical ==
  (last.op = "migrate" /\ last.backup /\ Len(Orig) > 0) =>
    backup_file = last.pre.ledger_file

\* C22: verify leaves the ledger file, the quarantine store and the backup
\* as they were, and a second verify with the same flags on the ledger it
\* left returns what the first returned (raising where the first raised).
C22_VerifyReadOnlyAndRepeatable ==
  last.op = "verify" =>
    /\ Files = last.pre
    /\ LET again == verify_ledger(ledger_file, last.strict_hash, last.allow_legacy_prefix)
       IN again.ret = last.ret /\ again.raised = last.raised

\* verify has returned false on a ledger found beside a quarantine store and
\* a backup
C22_Witness ==
  /\ Verified /\ ~last.ret.ok
  /\ Len(Orig) >= 2
  /\ quarantine_file # FAbsent /\ backup_file # FAbsent

\* C23: after append_entry returns, the stored ledger holds the n records
\* stored before, unchanged and in place, and one more; the quarantine store
\* and the backup are as they were.
C23_AppendKeepsHistory ==
  Appended =>
    /\ Len(Ledger) = Len(Orig) + 1
    /\ \A k \in 1..Len(Orig) : Ledger[k] = Orig[k]
    /\ quarantine_file = last.pre.quarantine_file
    /\ backup_file = last.pre.backup_file

\* an append on a ledger that holds a record that is not an object, beside
\* the quarantine store and the backup an earlier migrate wrote
C23_Witness ==
  /\ Appended
  /\ \E k \in 1..Len(Orig) : ~IsDict(Orig[k])
  /\ Len(QNow) >= 1 /\ backup_file # FAbsent
  /\ Ledger[Len(Orig)] = Orig[Len(Orig)]

\* C24: when the quarantine store exists but is not JSON or not a sequence,
\* a migrate that has records to quarantine fails and leaves the store's
\* content as it was.
C24_UnreadableQuarantineIsKept ==
  (last.op = "migrate" /\ Malformed(last.pre.quarantine_file) /\ Unresolved # {}) =>
    /\ last.raised
    /\ quarantine_file = last.pre.quarantine_file

\* ------------------------------------------------------------ what verify accepts
\* C25: after migrate returns having found at least one candidate, the
\* active ledger is a canonical chain, on which
\* verify(strict_hash=true, allow_legacy_prefix=false) returns true.
C25_MigratedLedgerVerifiesStrictly ==
  (Migrated /\ Candidates # {}) =>
    /\ IsCanonicalChain(Ledger)
    /\ verify_ledger(ledger_file, TRUE, FALSE) =
         [raised |-> FALSE, ret |-> Passed("verified")]

\* migrate has rewritten a ledger that strict verification rejected and from
\* which it quarantined a record
C25_Witness ==
  /\ Migrated /\ Candidates # {} /\ Unresolved # {}
  /\ ~verify_ledger(last.pre.ledger_file, TRUE, FALSE).ret.ok
  /\ Len(Ledger) >= 2
  /\ verify_ledger(ledger_file, TRUE, FALSE).ret.ok

\* the position (1-based) verification starts at: the first record that
\* resolves when the legacy prefix is allowed (0 when none does), else 1
StartOf(allow_legacy_prefix) ==
  IF ~allow_legacy_prefix THEN 1
  ELSE IF Candidates = {} THEN 0
  ELSE CHOOSE j \in Candidates : \A m \in Candidates : j <= m

\* the record at position j carries no stored hash
Hashless(j) == IsDict(Orig[j]) /\ Get(Orig[j], "hash") = JNull

\* what verify(strict_hash=false) returns on the ledger the last call found
NonStrict == verify_ledger(last.pre.ledger_file, FALSE, last.allow_legacy_prefix).ret

\* the records without a stored hash, from the start of verification on,
\* that pass every check of non-strict verification
PassingHashless ==
  LET start == StartOf(last.allow_legacy_prefix)
      upto == IF NonStrict.ok THEN Len(Orig) ELSE NonStrict.index
  IN IF start = 0 THEN {} ELSE {j \in start..upto : Hashless(j)}

\* C26: verify(strict_hash=true) returns false at the first record that
\* carries no stored hash and otherwise passes every check, and otherwise
\* what verify(strict_hash=false) returns; verify(strict_hash=false) never
\* reports a record without a stored hash for its hash.
C26_MissingHashFailsOnlyStrict ==
  Verified =>
    /\ last.strict_hash =>
         last.ret = IF PassingHashless = {} THEN NonStrict
                    ELSE Failure("missing_hash",
                                 (CHOOSE j \in PassingHashless :
                                    \A m \in PassingHashless : j <= m) - 1)
    /\ (~last.strict_hash /\ ~last.ret.ok /\ last.ret.index >= 0
          /\ Hashless(last.ret.index + 1)) =>
         last.ret.reason \in {"missing_fields", "bad_timestamp", "broken_chain"}

\* strict verification has failed for the missing hash of the second record,
\* which non-strict verification accepts
C26_Witness ==
  /\ Verified /\ last.strict_hash
  /\ last.ret = Failure("missing_hash", 1)
  /\ NonStrict.ok

\* the ledger the last call found is LegacyFull, which stores no hash,
\* followed by a block that states some prev_hash
HashlessThenBlock ==
  /\ Len(Orig) = 2
  /\ Orig[1] = LegacyFull
  /\ \E ph \in StatedPrevHashes : Orig[2] = SecondBlock(ph)

\* C27: where a record stores no hash, non-strict verification passes if the
\* next record's prev_hash is the hash computed from that record's canonical
\* fields, and reports a broken chain at the next record's index for any
\* other prev_hash.
C27_ChainAnchorsOnComputedHash ==
  (last.op = "verify" /\ ~last.strict_hash /\ HashlessThenBlock) =>
    /\ ~last.raised
    /\ last.ret = IF Get(Orig[2], "prev_hash") = LegacyFullDigest
                  THEN Passed("verified")
                  ELSE Failure("broken_chain", 1)

\* non-strict verification has passed the block whose prev_hash is the
\* computed hash of the record before it, which stores none
C27_Witness ==
  /\ Verified /\ ~last.strict_hash /\ HashlessThenBlock
  /\ Hashless(1)
  /\ Get(Orig[2], "prev_hash") = LegacyFullDigest
  /\ last.ret.ok

\* records that do not resolve: not an object, no timestamp, no subject,
\* a wrong hash, an index that is not a number
UnresolvableRecords ==
  {BareString, LegacyNoTimestamp, LegacyUnmappable, LegacyBadIndexNoSubject,
   JDict([hash |-> JStr("deadbeef"), prev_hash |-> JStr("deadbeef")])}

\* the ledger the last call found, with the record at position j replaced
Replaced(j, x) == FJson(JList([Orig EXCEPT ![j] = x]))

\* C28: with allow_legacy_prefix=true the records before the first one that
\* resolves are skipped: verify never fails at one of them, returns the same
\* whatever unresolvable record stands in their place, and accepts the
\* prev_hash of the first resolvable record as it is.
C28_LegacyPrefixIsSkipped ==
  (last.op = "verify" /\ last.allow_legacy_prefix /\ Candidates # {}) =>
    LET start == StartOf(TRUE)
    IN /\ ~last.raised
       /\ ~last.ret.ok => last.ret.index >= start - 1
       /\ last.ret # Failure("broken_chain", start - 1)
       /\ \A j \in 1..(start - 1), x \in UnresolvableRecords :
            verify_ledger(Replaced(j, x), last.strict_hash, TRUE).ret = last.ret

\* strict verification has passed a ledger whose first record is a bare
\* string, starting at the second
C28_Witness ==
  /\ Verified /\ last.allow_legacy_prefix /\ last.strict_hash
  /\ Candidates # {} /\ StartOf(TRUE) = 2
  /\ Orig[1] = BareString
  /\ last.ret.ok

\* C29: on a non-empty ledger in which no record resolves,
\* verify(allow_legacy_prefix=true) returns false, for either strict_hash: it
\* neither raises nor reports the ledger valid.
C29_NothingVerifiableFails ==
  (last.op = "verify" /\ last.allow_legacy_prefix /\ Len(Orig) > 0 /\ Candidates = {}) =>
    /\ ~last.raised
    /\ ~last.ret.ok
    /\ last.ret = Failure("no_verifiable", -1)

\* a ledger of two unresolvable records, one of them not an object, has been
\* refused without strict_hash
C29_Witness ==
  /\ Verified /\ last.allow_legacy_prefix /\ ~last.strict_hash
  /\ Len(Orig) = 2 /\ Candidates = {}
  /\ \E k \in 1..2 : ~IsDict(Orig[k])
  /\ \E k \in 1..2 : IsDict(Orig[k])
  /\ ~last.ret.ok

\* a record verification cannot accept: not an object, no subject or no
\* category, a timestamp that is missing or not a number
Unverifiable(block) ==
  \/ ~Resolves(block)
  \/ ~PyFloat(block[2]["timestamp"]).ok

\* the positions after the first verifiable record that hold such a record
BadAfterStart ==
  {j \in 1..Len(Orig) : Unverifiable(Orig[j]) /\ \E c \in Candidates : c < j}

\* C30: an unverifiable record after the first verifiable record makes
\* verify return false, no later than at that record, whatever the flags.
C30_BadRecordAfterStartFails ==
  (last.op = "verify" /\ BadAfterStart # {}) =>
    /\ ~last.raised
    /\ ~last.ret.ok
    /\ \A j \in BadAfterStart : last.ret.index <= j - 1

\* ------------------------------------------------- ledgers ending without a hash
\* records that carry no stored hash: one with a stored index that differs
\* from its position, one whose index is a numeral and whose hash and
\* prev_hash are null, one whose hash is the empty string
LegacyIndexed == JDict([index |-> JNum(5), name |-> JStr("audit_log"),
                        priority |-> JStr("P1"), timestamp |-> JNum(1)])
LegacyNullHash == JDict([index |-> JStr("3"), organ |-> JStr("sentinel"),
                         tier |-> JStr("P0"), timestamp |-> JNum(1),
                         prev_hash |-> JNull, hash |-> JNull])
LegacyEmptyHash == JDict([organ |-> JStr("sentinel"), tier |-> JStr("P0"),
                          timestamp |-> JNum(1), hash |-> JStr("")])

TailRecords ==
  SampleRecords \cup {LegacyIndexed, LegacyNullHash, LegacyEmptyHash, LegacyBadIndex}

\* a ledger of at most MaxInit records found on disk, its last record any
\* of TailRecords
InitTail ==
  /\ ledger_file \in {FJson(JList(Append(q, t))) :
                        q \in SeqsUpTo(SampleRecords, MaxInit - 1), t \in TailRecords}
  /\ quarantine_file = FAbsent
  /\ backup_file = FAbsent
  /\ last = [op |-> "none"]
  /\ tamper = NoTamper
  /\ NoSteps

SpecTail == InitTail /\ [][Next]_vars

\* the last record the append found, and the conversions of its fields
OrigTail == Orig[Len(Orig)]
TailIndex == PyInt(GetD(OrigTail, "index", JNum(Len(Orig) - 1)))
TailTimestamp ==
  IF HasKey(OrigTail, "timestamp") THEN PyFloat(OrigTail[2]["timestamp"])
  ELSE [ok |-> FALSE, val |-> 0]
TailResolves ==
  /\ IsDict(OrigTail)
  /\ map_legacy_fields(OrigTail)[1] # JNull
  /\ map_legacy_fields(OrigTail)[2] # JNull
  /\ TailIndex.ok
  /\ TailTimestamp.ok

\* C31: when the last record carries no stored hash, append_entry succeeds:
\* the new block's prev_hash is the digest of the last record's mapped
\* subject and category, its index (its position when absent), its timestamp
\* and its prev_hash (GENESIS when absent) when all of these resolve, and
\* GENESIS when the record is not an object, does not map, or has an
\* unusable index or timestamp.
C31_AppendAfterHashlessTail ==
  (last.op = "append" /\ Len(Orig) > 0 /\ ~CarriesHash(OrigTail)) =>
    /\ ~last.raised
    /\ Len(Ledger) = Len(Orig) + 1
    /\ Get(Ledger[Len(Ledger)], "prev_hash") =
         IF TailResolves
         THEN hash_block(canonical_block_for_hash(
                TailIndex.val,
                map_legacy_fields(OrigTail)[1], map_legacy_fields(OrigTail)[2],
                TailTimestamp.val,
                PyStr(GetD(OrigTail, "prev_hash", GENESIS))))
         ELSE GENESIS

\* an append after a hashless record that states index 5 at position 0: the
\* new block is chained to the digest taken with index 5
C31_Witness ==
  /\ Appended /\ Len(Orig) = 1 /\ OrigTail = LegacyIndexed
  /\ TailResolves /\ TailIndex.val = 5
  /\ Get(Ledger[2], "prev_hash") # GENESIS

\* ------------------------------------------------------------ the mapper alone
\* the records the mapper is applied to: at most MaxKeys of the ten keys it
\* reads, each null, empty, zero or a name
MaxKeys == 3
MapperKeys == {"organ", "name", "organ_name", "service", "module",
               "tier", "priority", "level", "tier_name", "class"}
MapperValues == {JNull, JStr(""), JNum(0), JStr("svc")}
MapperInputs ==
  {JDict(f) : f \in UNION {[K -> MapperValues] :
                             K \in {S \in SUBSET MapperKeys : Cardinality(S) <= MaxKeys}}}

InitMap ==
  /\ ledger_file = FAbsent
  /\ quarantine_file = FAbsent
  /\ backup_file = FAbsent
  /\ last \in {[op |-> "input", block |-> b] : b \in MapperInputs}
  /\ tamper = NoTamper
  /\ NoSteps

\* one call of _map_legacy_fields(block)
MapFields ==
  /\ last.op = "input"
  /\ last' = [op |-> "map", block |-> last.block, ret |-> map_legacy_fields(last.block)]
  /\ UNCHANGED <<ledger_file, quarantine_file, backup_file, tamper, fsys, procs>>

NextMap == MapFields
SpecMap == InitMap /\ [][NextMap]_vars

\* whether a fallback key "yields a value": its value is truthy, or is not
\* null
Yields(v, truthy) == IF truthy THEN Truthy(v) ELSE v # JNull

\* str() of the value of the first key of the list that yields one; None
\* when there is none
RECURSIVE FirstYield(_, _, _)
FirstYield(block, keys, truthy) ==
  IF Len(keys) = 0 THEN JNull
  ELSE IF Yields(Get(block, keys[1]), truthy) THEN PyStr(Get(block, keys[1]))
  ELSE FirstYield(block, Tail(keys), truthy)

\* the component the claim describes: the canonical key when present and not
\* null, otherwise the first fallback key that yields a value
Resolved(block, key, keys, truthy) ==
  IF Get(block, key) # JNull THEN PyStr(Get(block, key))
  ELSE FirstYield(block, keys, truthy)

\* C32: the mapper resolves subject from organ when present and not null,
\* otherwise from the first of name, organ_name, service, module that yields
\* a value, and category likewise from tier, then priority, level,
\* tier_name, class; each component independently of the other, None exactly
\* when none of its keys resolves. "Yields a value" is taken either as "is
\* not null" or as "is truthy", the same for every key.
C32_MapperResolvesFirstValue ==
  last.op = "map" =>
    /\ \/ last.ret[1] = Resolved(last.block, "organ", OrganKeys, FALSE)
       \/ last.ret[1] = Resolved(last.block, "organ", OrganKeys, TRUE)
    /\ \/ last.ret[2] = Resolved(last.block, "tier", TierKeys, FALSE)
       \/ last.ret[2] = Resolved(last.block, "tier", TierKeys, TRUE)

\* ------------------------------------------------------------ compile_tier
\* the spec directory: at most MaxSpecs YAML files, numbered in the order of
\* their file names; each holds an organ name (not in file-name order) and a
\* tier
MaxSpecs == 3
OrganNames == <<JStr("zeta"), JStr("alpha"), JStr("mid"), JStr("beta")>>
Tiers == {JStr("P0"), JStr("P1")}
SpecDirs ==
  {{[file |-> n, name |-> OrganNames[n], tier |-> t[n]] : n \in F} :
     F \in SUBSET (1..MaxSpecs), t \in [1..MaxSpecs -> Tiers]}

\* a loader that yields the spec files in descending order
RECURSIVE load_organs_Descending(_)
load_organs_Descending(spec_dir) ==
  IF spec_dir = {} THEN <<>>
  ELSE LET first == CHOOSE o \in spec_dir : \A x \in spec_dir : o.file >= x.file
       IN <<first>> \o load_organs_Descending(spec_dir \ {first})

\* _load_organs: the organs of the directory, sorted by file name
RECURSIVE load_organs(_)
load_organs(spec_dir) ==
  IF spec_dir = {} THEN <<>>
  ELSE LET first == CHOOSE o \in spec_dir : \A x \in spec_dir : o.file <= x.file
       IN <<first>> \o load_organs(spec_dir \ {first})

\* organs = [o for o in _load_organs(spec_dir) if o.tier == tier]
TierOrgans(spec_dir, tier) ==
  LET OfTier(o) == o.tier = tier
  IN SelectSeq(load_organs(spec_dir), OfTier)

\* the one compile_tier call under way
Compile == procs[1]

\* compile_tier(tier, strict=...) is called on a ledger file that is absent,
\* holds one block, or is not JSON
InitCompile ==
  /\ ledger_file \in {FAbsent, FJson(JList(<<GenesisBlock>>)), FInvalid}
  /\ quarantine_file = FAbsent
  /\ backup_file = FAbsent
  /\ tamper = NoTamper
  /\ fsys = [ledger |-> FAbsent, tmp |-> FAbsent]
  /\ \E spec_dir \in SpecDirs, tier \in Tiers, strict \in BOOLEAN :
       /\ last = [op |-> "compile", spec_dir |-> spec_dir, tier |-> tier,
                  strict |-> strict, pre |-> Files]
       /\ procs = <<[pc |-> "loop", organs |-> TierOrgans(spec_dir, tier), k |-> 1,
                     activated |-> <<>>, failed |-> <<>>, raised |-> "no"]>>

\* append_ledger_entry(organ.name, organ.tier) for the next organ
CompileAppend ==
  /\ Compile.pc = "loop" /\ Compile.k <= Len(Compile.organs)
  /\ \E now \in Times :
       LET organ == Compile.organs[Compile.k]
           r == append_ledger_entry(ledger_file, organ.name, organ.tier, now)
       IN /\ ledger_file' = r.ledger_file
          /\ procs' = IF r.raised
                      THEN <<[Compile EXCEPT !.pc = "raised", !.raised = "append"]>>
                      ELSE <<[Compile EXCEPT !.pc = "activate"]>>
  /\ UNCHANGED <<quarantine_file, backup_file, last, tamper, fsys>>

\* organ.activate() returns: the organ is noted as activated
ActivateOk ==
  /\ Compile.pc = "activate"
  /\ procs' = <<[Compile EXCEPT !.pc = "loop", !.k = @ + 1,
                   !.activated = Append(@, Compile.organs[Compile.k].name)]>>
  /\ UNCHANGED <<ledger_file, quarantine_file, backup_file, last, tamper, fsys>>

\* organ.activate() raises: re-raised when strict, else the loop goes on
ActivateFails ==
  /\ Compile.pc = "activate"
  /\ procs' = <<[Compile EXCEPT
                   !.pc = IF last.strict THEN "raised" ELSE "loop",
                   !.raised = IF last.strict THEN "activate" ELSE @,
                   !.k = IF last.strict THEN @ ELSE @ + 1,
                   !.failed = Append(@, Compile.organs[Compile.k].name)]>>
  /\ UNCHANGED <<ledger_file, quarantine_file, backup_file, last, tamper, fsys>>

\* verify_ledger() after the loop, then the result is returned
CompileVerify ==
  /\ Compile.pc = "loop" /\ Compile.k > Len(Compile.organs)
  /\ LET r == verify_ledger(ledger_file, FALSE, TRUE)
     IN procs' = IF r.raised
                 THEN <<[Compile EXCEPT !.pc = "raised", !.raised = "verify"]>>
                 ELSE <<[Compile EXCEPT !.pc = "done"]>>
  /\ UNCHANGED <<ledger_file, quarantine_file, backup_file, last, tamper, fsys>>

NextCompile == CompileAppend \/ ActivateOk \/ ActivateFails \/ CompileVerify
SpecCompile == InitCompile /\ [][NextCompile]_vars

\* the organs whose activation has been attempted, in the order of the
\* attempts, and the blocks recorded since the call began
Attempted == Len(Compile.activated) + Len(Compile.failed)
Recorded == SubSeq(Ledger, Len(Orig) + 1, Len(Ledger))
\* the files of the tier in ascending order of file name
TierFiles == {o \in last.spec_dir : o.tier = last.tier}
Before(o) == {x \in TierFiles : x.file < o.file}

\* C33: compile_tier records one entry per organ of the tier, in spec-file
\* name order, each before the organ's activation is attempted: an organ
\* whose activation failed has its entry; in strict mode the failure stops
\* the run and the organs after it have no entry; a run that reaches the end
\* has recorded exactly one entry per organ of the tier.
C33_OneEntryPerOrganBeforeActivation ==
  (last.op = "compile" /\ ~Malformed(last.pre.ledger_file)) =>
    /\ \A k \in 1..Len(Orig) : Ledger[k] = Orig[k]
    /\ Len(Recorded) = Attempted + (IF Compile.pc = "activate" THEN 1 ELSE 0)
    /\ Len(Recorded) <= Cardinality(TierFiles)
    /\ \A j \in 1..Len(Recorded) :
         \E o \in TierFiles :
           /\ Cardinality(Before(o)) = j - 1
           /\ Get(Recorded[j], "organ") = o.name
           /\ Get(Recorded[j], "tier") = o.tier
    /\ \A name \in {Compile.failed[i] : i \in 1..Len(Compile.failed)}
                     \cup {Compile.activated[i] : i \in 1..Len(Compile.activated)} :
         \E j \in 1..Len(Recorded) : Get(Recorded[j], "organ") = name
    /\ (Compile.raised = "activate" /\ last.strict) =>
         /\ Len(Compile.failed) = 1
         /\ Get(Recorded[Len(Recorded)], "organ") = Compile.failed[1]
    /\ Compile.pc = "done" => Len(Recorded) = Cardinality(TierFiles)
    /\ Compile.raised # "append"

\* a strict run over three organs of the tier has stopped at the second:
\* the first two have their entries, the third has none
C33_Witness ==
  /\ last.op = "compile" /\ last.strict /\ Compile.raised = "activate"
  /\ Cardinality(TierFiles) = 3
  /\ Len(Orig) = 1
  /\ Len(Recorded) = 2
  /\ Compile.activated = <<OrganNames[1]>>
  /\ Compile.failed = <<OrganNames[2]>>
  /\ Get(Ledger[3], "organ") = OrganNames[2]

\* verify returns true on that file with those flags
Accepts(file, strict_hash, allow_legacy_prefix) ==
  LET r == verify_ledger(file, strict_hash, allow_legacy_prefix)
  IN ~r.raised /\ r.ret.ok

\* C34: append_entry preserves validity: whatever flags verify returned true
\* with on the stored ledger, it returns true with them again after one more
\* append_entry.
C34_AppendPreservesValidity ==
  Appended =>
    \A strict_hash \in BOOLEAN, allow_legacy_prefix \in BOOLEAN :
      Accepts(last.pre.ledger_file, strict_hash, allow_legacy_prefix)
        => Accepts(ledger_file, strict_hash, allow_legacy_prefix)

\* an append after a record without a stored hash, whose index is not its
\* position: the ledger was valid without strict_hash and still is, the new
\* block being chained to the digest verify computes for that record
C34_Witness ==
  /\ Appended /\ Len(Orig) = 2 /\ ~IsDict(Orig[1]) /\ OrigTail = LegacyIndexed
  /\ Accepts(last.pre.ledger_file, FALSE, TRUE)
  /\ ~Accepts(last.pre.ledger_file, TRUE, TRUE)
  /\ Accepts(ledger_file, FALSE, TRUE)
  /\ Get(Ledger[3], "prev_hash") # GENESIS

\* ------------------------------------------------------------ truncation
\* the ledger is cut down to one non-empty contiguous run of its blocks:
\* leading blocks, trailing blocks or both are removed
Truncate ==
  \E i \in 1..Len(Ledger), j \in 1..Len(Ledger) :
    /\ i <= j
    /\ j - i + 1 < Len(Ledger)
    /\ Edit(SubSeq(Ledger, i, j), [kind |-> "truncate", from |-> i - 1, to |-> j - 1])

NextTruncate == Build \/ Truncate \/ Verify

SpecTruncate == Init /\ [][NextTruncate]_vars

\* C35: verify accepts truncated chains: every non-empty contiguous run of
\* the blocks of a ledger built by append_entry is accepted by verify under
\* all flag combinations.
C35_TruncatedChainIsAccepted ==
  (last.op = "verify" /\ tamper.kind = "truncate") =>
    /\ ~last.raised
    /\ last.ret = Passed("verified")

\* of three appended blocks only the middle one is left, and strict
\* verification without legacy prefix has accepted it
C35_Witness ==
  /\ Verified /\ tamper.kind = "truncate" /\ tamper.from = 1 /\ tamper.to = 1
  /\ Len(Orig) = 1 /\ Get(Orig[1], "index") = JNum(1)
  /\ Get(Orig[1], "prev_hash") # GENESIS
  /\ last.strict_hash /\ ~last.allow_legacy_prefix
  /\ last.ret.ok

\* ------------------------------------------------------------ migrate, write by write
\* the one migrate_ledger_in_place call under way, and what it loaded
Run == procs[1]
Loaded == load_ledger(last.pre.ledger_file).val

\* migrate_ledger_in_place(backup=...) is called on any sequence-shaped
\* ledger, beside a quarantine store left by earlier runs
InitMigrate ==
  /\ ledger_file \in {FJson(JList(q)) : q \in SeqsUpTo(SampleRecords, MaxInit)}
  /\ quarantine_file \in StoredQuarantines
  /\ backup_file = FAbsent
  /\ tamper = NoTamper
  /\ fsys = [ledger |-> FAbsent, tmp |-> FAbsent]
  /\ \E backup \in BOOLEAN :
       /\ last = [op |-> "migrate_run", backup |-> backup, pre |-> Files]
       /\ procs = <<[pc |-> "load"]>>

\* ledger = load_ledger(); an empty ledger returns at once
MigrateLoad ==
  /\ Run.pc = "load"
  /\ LET ld == load_ledger(ledger_file)
     IN procs' = <<[pc |-> IF ld.raised THEN "raised"
                           ELSE IF Len(ld.val) = 0 THEN "done" ELSE "backup"]>>
  /\ UNCHANGED <<ledger_file, quarantine_file, backup_file, last, tamper, fsys>>

\* the backup is written when asked for
MigrateBackup ==
  /\ Run.pc = "backup"
  /\ backup_file' = IF last.backup /\ ledger_file # FAbsent
                    THEN atomic_write_text(read_text(ledger_file))
                    ELSE backup_file
  /\ procs' = <<[pc |-> "quarantine"]>>
  /\ UNCHANGED <<ledger_file, quarantine_file, last, tamper, fsys>>

\* a run that goes on to the rewrite without saving the quarantined records
MigrateQuarantine_Deferred ==
  /\ Run.pc = "quarantine"
  /\ procs' = <<[pc |-> IF Len(Cleaned(Loaded, Len(Loaded))) = 0
                        THEN "done" ELSE "rewrite"]>>
  /\ UNCHANGED <<ledger_file, quarantine_file, backup_file, last, tamper, fsys>>

\* first pass, then the quarantined records are added to the quarantine
\* store; the call returns if no candidate is left
MigrateQuarantine ==
  /\ Run.pc = "quarantine"
  /\ LET quarantined == Quarantined(Loaded, Len(Loaded))
     IN quarantine_file' =
          IF Len(quarantined) > 0
          THEN save_json_list(load_json_list(quarantine_file) \o quarantined)
          ELSE quarantine_file
  /\ procs' = <<[pc |-> IF Len(Cleaned(Loaded, Len(Loaded))) = 0
                        THEN "done" ELSE "rewrite"]>>
  /\ UNCHANGED <<ledger_file, backup_file, last, tamper, fsys>>

\* second pass: the canonical chain is built in memory, or float() raises
MigrateRewrite ==
  /\ Run.pc = "rewrite"
  /\ LET rw == Rewrite(Cleaned(Loaded, Len(Loaded)), 1, <<>>, GENESIS, 0)
     IN procs' = <<[pc |-> IF rw.raised THEN "raised" ELSE "save"]>>
  /\ UNCHANGED <<ledger_file, quarantine_file, backup_file, last, tamper, fsys>>

\* save_ledger(new_ledger)
MigrateSave ==
  /\ Run.pc = "save"
  /\ ledger_file' =
       save_ledger(Rewrite(Cleaned(Loaded, Len(Loaded)), 1, <<>>, GENESIS, 0).new_ledger)
  /\ procs' = <<[pc |-> "done"]>>
  /\ UNCHANGED <<quarantine_file, backup_file, last, tamper, fsys>>

\* the process is killed between two of its steps
MigrateCrash ==
  /\ Run.pc \in {"load", "backup", "quarantine", "rewrite", "save"}
  /\ procs' = <<[pc |-> "crashed"]>>
  /\ UNCHANGED <<ledger_file, quarantine_file, backup_file, last, tamper, fsys>>

NextMigrate ==
  \/ MigrateLoad \/ MigrateBackup \/ MigrateQuarantine
  \/ MigrateRewrite \/ MigrateSave \/ MigrateCrash

SpecMigrate == InitMigrate /\ [][NextMigrate]_vars

\* the original record at position j is in the active ledger file / is in
\* the quarantine store as the first pass wraps it
InLedger(j) == \E k \in 1..Len(Ledger) : Ledger[k] = Orig[j]
InStore(j) ==
  \E k \in 1..Len(QNow) : QNow[k] = QuarantineRecord(Orig[j], j - 1)

\* the run written write by write ends as the call does
MigrateRunIsTheCall ==
  (last.op = "migrate_run" /\ Run.pc \in {"done", "raised"}) =>
    LET r == migrate_ledger_in_place(last.pre.ledger_file, last.pre.quarantine_file,
                                     last.pre.backup_file, last.backup)
    IN /\ ledger_file = r.ledger_file
       /\ quarantine_file = r.quarantine_file
       /\ backup_file = r.backup_file
       /\ r.raised = (Run.pc = "raised")

\* C36: within one migrate run the quarantine store is persisted before the
\* active ledger is replaced: while the ledger file is not yet replaced it
\* holds every original record, once it is replaced every record that was
\* not migrated is in the quarantine store, and wherever the run stops
\* (crash or error) every original record is in one of the two files.
C36_QuarantineSavedBeforeLedger ==
  last.op = "migrate_run" =>
    /\ Run.pc # "done" => ledger_file = last.pre.ledger_file
    /\ ledger_file # last.pre.ledger_file => \A j \in Unresolved : InStore(j)
    /\ Run.pc = "done" => \A j \in Unresolved : InStore(j)
    /\ Run.pc \in {"crashed", "raised"} =>
         \A j \in 1..Len(Orig) : InLedger(j) \/ InStore(j)

\* the run was killed after the quarantine store was written and before the
\* ledger was replaced: the ledger file is the original, and the
\* quarantined record is in both files
C36_Witness ==
  /\ last.op = "migrate_run" /\ Run.pc = "crashed"
  /\ Unresolved # {} /\ Candidates # {}
  /\ Len(QNow) > Len(QPre) /\ Len(QPre) > 0
  /\ ledger_file = last.pre.ledger_file
  /\ \A j \in Unresolved : InLedger(j) /\ InStore(j)

\* C37: the flags of verify only relax the check: where verify(strict_hash=
\* true) returns true, verify(strict_hash=false) with the same
\* allow_legacy_prefix returns true on the same ledger, and where
\* verify(allow_legacy_prefix=false) returns true,
\* verify(allow_legacy_prefix=true) with the same strict_hash returns true.
C37_FlagsOnlyRelax ==
  (Verified /\ last.ret.ok) =>
    /\ last.strict_hash => Accepts(ledger_file, FALSE, last.allow_legacy_prefix)
    /\ ~last.allow_legacy_prefix => Accepts(ledger_file, last.strict_hash, TRUE)

\* a hashless legacy record has passed verification without strict_hash and
\* without legacy prefix; strict verification refuses it
C37_HashlessPassed ==
  /\ Verified /\ last.ret.ok
  /\ ~last.strict_hash /\ ~last.allow_legacy_prefix
  /\ Len(Orig) = 1 /\ Orig[1] = LegacyFull
  /\ Accepts(ledger_file, FALSE, TRUE)
  /\ ~Accepts(ledger_file, TRUE, FALSE)

\* two chained blocks have passed strict verification without legacy
\* prefix, and pass with either flag relaxed
C37_Witness ==
  /\ Verified /\ last.ret.ok
  /\ last.strict_hash /\ ~last.allow_legacy_prefix
  /\ Len(Orig) = 2
  /\ Accepts(ledger_file, FALSE, FALSE)
  /\ Accepts(ledger_file, TRUE, TRUE)

====
